---- MODULE Spec2Model ----
(***************************************************************************)
(* Conversation orchestration of the WhatsApp / web-chat bot backend:      *)
(* the two dispatchers (bot-manager.ts, web-conversation-engine.ts), the   *)
(* booking conversation engine (booking-service, booking-state-manager),   *)
(* the workflow engine (workflow-engine.ts) and the reservation procedure  *)
(* create_booking_safe with its partial unique index.                      *)
(*                                                                         *)
(* Every inbound message is a turn.  A turn is a sequence of storage       *)
(* operations (each one await on supabase); turns interleave at those      *)
(* awaits, because neither the messages.upsert handler of one socket nor   *)
(* the ws 'message' handler waits for the previous event's promise.        *)
(***************************************************************************)
EXTENDS Integers, Sequences, FiniteSets, TLC

\* ------------------------------------------------------------------ bounds
MaxTurns == 2        \* turns in flight at the same time
MaxDates == 2        \* length of the rolling date window that is modelled
MaxTimes == 2        \* slots the weekly template yields on the first date
MaxBookings == 2     \* rows the bookings table may hold
MaxWfRows == 2       \* rows the workflow_conversations table may hold
MaxInquiries == 1    \* rows the inquiries table may hold
MaxMedia == 2        \* media items a bot holds
MaxNow == 65         \* minutes of wall clock that are followed
LastArrival == 3     \* minute after which the customers of a timed scenario are silent

\* ------------------------------------------------------- program constants
ExpiryMinutes == 30
\* setInterval(cleanupExpiredConversations, 5 * 60 * 1000)
SweepMinutes == 5

\* --------------------------------------------------------------- universe
Turns == 1..MaxTurns
Dates == 1..MaxDates
PhoneUsers == {"p1"}
WebUsers == {"w1"}
Users == PhoneUsers \cup WebUsers

\* WhatsAppAdapter.channel() / WebAdapter.channel()
channel(u) == IF u \in PhoneUsers THEN "whatsapp" ELSE "web"

\* business_time_slots: the template of the weekday of date d
TemplateSlots(d) ==
  IF d = 1 THEN 1..MaxTimes ELSE IF d \in Dates THEN {1} ELSE {}

\* Inbound texts.  A text is known by the words it contains.
Msgs == {"book!", "info?", "book info!", "visit?", "plan?", "tour?",
         "cancel", "CANCEL", "y", "jane", "0", "1", "2", "3", "10:00",
         "faq?", "menu?", "FAQ Info", "skip?", "show?", "pick?", "BLUE",
         "album?"}

\* The keywords a lower-cased text contains as substrings.
Words(m) ==
  CASE m = "book!" -> {"book"}
    [] m = "info?" -> {"info"}
    [] m = "book info!" -> {"book", "info"}
    [] m = "visit?" -> {"visit"}
    [] m = "plan?" -> {"plan"}
    [] m = "tour?" -> {"tour"}
    [] m = "faq?" -> {"faq"}
    [] m = "menu?" -> {"menu"}
    [] m = "faq info" -> {"faq", "info"}
    [] m = "skip?" -> {"skip"}
    [] m = "show?" -> {"show"}
    [] m = "pick?" -> {"pick"}
    [] m = "album?" -> {"album"}
    [] OTHER -> {}

\* String.prototype.toLowerCase on the modelled texts
toLowerCase(m) ==
  IF m = "CANCEL" THEN "cancel" ELSE IF m = "FAQ Info" THEN "faq info"
  ELSE IF m \in {"BLUE", "Blue"} THEN "blue" ELSE IF m = "Red" THEN "red"
  ELSE m

\* String.prototype.includes(keyword) on the modelled texts
includes(m, k) == k \in Words(m)

\* bot_settings.booking_trigger_keywords (default value)
BookingKeywords == {"book", "booking", "appointment", "schedule", "reserve"}

\* BookingService.isBookingTrigger
isBookingTrigger(m, keywords) ==
  \E k \in keywords : includes(toLowerCase(m), toLowerCase(k))

\* ------------------------------------------------------ workflow definitions
\* The workflows of the bot, in the order the select returns them: four
\* published ones, a draft, a switched-off one, one created without steps
\* (steps defaults to '[]'), one that shares keywords with others, one with
\* an explicit next that jumps over a step and one that opens with media.
Workflows ==
  << [id |-> "wInq", status |-> "published", is_active |-> TRUE,
      keywords |-> {"info"}, save |-> TRUE,
      steps |-> << [id |-> "q1", type |-> "collect_field", next |-> ""],
                   [id |-> "q2", type |-> "collect_field", next |-> ""] >>],
     [id |-> "wVisit", status |-> "published", is_active |-> TRUE,
      keywords |-> {"visit"}, save |-> TRUE,
      steps |-> << [id |-> "v1", type |-> "start_booking", next |-> ""] >>],
     [id |-> "wPlan", status |-> "published", is_active |-> TRUE,
      keywords |-> {"plan"}, save |-> TRUE,
      steps |-> << [id |-> "n1", type |-> "collect_field", next |-> ""],
                   [id |-> "n2", type |-> "start_booking", next |-> ""] >>],
     [id |-> "wTour", status |-> "published", is_active |-> TRUE,
      keywords |-> {"tour"}, save |-> TRUE,
      steps |-> << [id |-> "t1", type |-> "share_media", next |-> "t2"],
                   [id |-> "t2", type |-> "start_booking", next |-> ""] >>],
     [id |-> "wDraft", status |-> "draft", is_active |-> TRUE,
      keywords |-> {"faq"}, save |-> FALSE,
      steps |-> << [id |-> "d1", type |-> "collect_field", next |-> ""] >>],
     [id |-> "wOff", status |-> "published", is_active |-> FALSE,
      keywords |-> {"faq"}, save |-> FALSE,
      steps |-> << [id |-> "o1", type |-> "collect_field", next |-> ""] >>],
     [id |-> "wEmpty", status |-> "published", is_active |-> TRUE,
      keywords |-> {"menu"}, save |-> FALSE, steps |-> << >>],
     [id |-> "wFaq", status |-> "published", is_active |-> TRUE,
      keywords |-> {"faq", "menu"}, save |-> FALSE,
      steps |-> << [id |-> "a1", type |-> "collect_field", next |-> ""] >>],
     [id |-> "wSkip", status |-> "published", is_active |-> TRUE,
      keywords |-> {"skip"}, save |-> TRUE,
      steps |-> << [id |-> "k1", type |-> "collect_field", next |-> "k3"],
                   [id |-> "k2", type |-> "collect_field", next |-> ""],
                   [id |-> "k3", type |-> "collect_field", next |-> ""] >>],
     [id |-> "wShow", status |-> "published", is_active |-> TRUE,
      keywords |-> {"show"}, save |-> FALSE,
      steps |-> << [id |-> "h1", type |-> "share_media", next |-> "h2"],
                   [id |-> "h2", type |-> "collect_field", next |-> ""] >>],
     [id |-> "wPick", status |-> "published", is_active |-> TRUE,
      keywords |-> {"pick"}, save |-> FALSE,
      steps |-> << [id |-> "c1", type |-> "show_options", next |-> ""],
                   [id |-> "c2", type |-> "collect_field", next |-> ""] >>],
     [id |-> "wAlbum", status |-> "published", is_active |-> TRUE,
      keywords |-> {"album"}, save |-> FALSE,
      steps |-> << [id |-> "g1", type |-> "share_media", next |-> ""],
                   [id |-> "g2", type |-> "collect_field", next |-> ""] >>] >>

\* options_config.options of the show_options steps
Options(sid) ==
  IF sid = "c1"
  THEN << [label |-> "Red", value |-> "r"], [label |-> "Blue", value |-> "b"] >>
  ELSE << >>

\* ------------------------------------------------------------------ state
VARIABLES
  settings,     \* bot_settings row of the bot
  bconv,        \* booking_conversations rows
  wconv,        \* workflow_conversations rows, in insertion order
  bookings,     \* bookings rows, in insertion order
  inquiries,    \* inquiries rows, in insertion order
  now,          \* wall clock, in minutes
  turns         \* the turns in flight: one record per slot

vars == <<settings, bconv, wconv, bookings, inquiries, now, turns>>

\* collectedData of a booking conversation ("" and 0 stand for an absent key)
NoData == [customerName |-> "", bookingFor |-> "", gender |-> "",
           serviceId |-> 0, serviceName |-> "", servicePrice |-> 0,
           bookingDate |-> 0, bookingTime |-> 0]

IdleTurn ==
  [pc |-> "idle", user |-> "", msg |-> "",
   be |-> FALSE,          \* bookingEnabled as read by the dispatcher
   step |-> "", data |-> NoData,      \* the turn's ConversationState object
   rstep |-> "", rdata |-> NoData,    \* the session as the turn read it
   avail |-> <<>>,        \* availableSlots fetched by the turn
   res |-> "",            \* what create_booking_safe returned to the turn
   made |-> 0,            \* id of the reservation the turn created
   cid |-> 0, wf |-> 0,   \* workflow conversation row and workflow of the turn
   cur |-> "",            \* current_step_id of that row as the turn read it
   wstate |-> {},         \* the turn's copy of the workflow state
   inq |-> 0,             \* inquiry rows the turn inserted
   route |-> <<>>,        \* the engines the dispatcher handed the message to
   ab0 |-> FALSE, aw0 |-> FALSE,  \* active sessions at arrival
   s0 |-> "", d0 |-> NoData,      \* the stored booking session at arrival
   link |-> "up",         \* the transport of the turn's adapter: up or down
   calls |-> 0,           \* sendText calls the turn made on its adapter
   audit |-> <<>>,        \* outbound records the adapter wrote to messages
   faulted |-> FALSE,     \* a collaborator call of the turn has failed
   thrown |-> FALSE,      \* an error is propagating out of the running call
   escaped |-> "",        \* where an error left the turn uncaught
   caps |-> {},           \* optional methods of the adapter of a media step
   media |-> <<>>,        \* the bot media a share_media step fetched
   out |-> <<>>,          \* the adapter calls of a share_media step
   sent |-> <<>>]         \* outbound messages of the turn

Init ==
  /\ settings = [booking_enabled |-> TRUE, workflow_enabled |-> TRUE,
                 booking_require_booking_for |-> TRUE,
                 booking_require_gender |-> TRUE]
  /\ bconv = {}
  /\ wconv = <<>>
  /\ bookings = <<>>
  /\ inquiries = <<>>
  /\ now = 0
  /\ turns = [i \in Turns |-> IdleTurn]

\* ---------------------------------------------------------- storage helpers
\* booking_conversations rows .eq(bot_id).eq(customer_phone).eq(is_completed,false)
ActiveRows(u) == {r \in bconv : r.customer_phone = u /\ ~r.is_completed}

\* .single(): data is returned when exactly one row matches, an error otherwise
single(S) == Cardinality(S) = 1

\* BookingStateManager.hasActiveConversation
hasActiveConversation(u) == single(ActiveRows(u))

\* current_step and conversation_state of the active row of u; "" and no
\* data when u has none
StoredSession(u) ==
  IF single(ActiveRows(u))
  THEN LET r == CHOOSE r \in ActiveRows(u) : TRUE IN
       [current_step |-> r.current_step,
        conversation_state |-> r.conversation_state]
  ELSE [current_step |-> "", conversation_state |-> NoData]

\* UNIQUE(bot_id, customer_phone, is_completed) of booking_conversations when
\* the active rows of u are set to is_completed = true: a completed row of u
\* is already there
CompletionConflict(u) ==
  /\ ActiveRows(u) # {}
  /\ \E r \in bconv : r.customer_phone = u /\ r.is_completed

\* workflow_conversations rows .eq(bot_id).eq(user_key).eq(is_completed,false)
ActiveWf(u) ==
  {c \in 1..Len(wconv) : wconv[c].user_key = u /\ ~wconv[c].is_completed}

\* .maybeSingle(): the row when exactly one matches, null (0) when none matches
\* and, with an error the caller ignores, when several match
maybeSingle(S) == IF Cardinality(S) = 1 THEN CHOOSE c \in S : TRUE ELSE 0

\* status IN ('pending', 'confirmed'): the predicate of idx_bookings_unique_slot
HoldsSlot(b) == b.status \in {"pending", "confirmed"}

\* is_time_slot_available(p_business_id, p_booking_date, p_booking_time)
is_time_slot_available(d, t) ==
  ~\E k \in 1..Len(bookings) :
     bookings[k].booking_date = d /\ bookings[k].booking_time = t
     /\ HoldsSlot(bookings[k])

\* A bookings table without the partial unique index
idx_dropped(B) == TRUE

\* idx_bookings_unique_slot over the rows B
idx_bookings_unique_slot(B) ==
  \A j, k \in 1..Len(B) :
    (j # k /\ HoldsSlot(B[j]) /\ HoldsSlot(B[k]))
      => ~(B[j].booking_date = B[k].booking_date
           /\ B[j].booking_time = B[k].booking_time)

\* The sorted members of a set of numbers, as a sequence (ORDER BY slot_time)
RECURSIVE Sorted(_)
Sorted(S) ==
  IF S = {} THEN <<>>
  ELSE LET m == CHOOSE x \in S : \A y \in S : x <= y
       IN <<m>> \o Sorted(S \ {m})

\* get_available_time_slots, filtered on is_available by the caller
availableSlots(d) ==
  Sorted({t \in TemplateSlots(d) : is_time_slot_available(d, t)})

\* ------------------------------------------------------------ turn helpers

Via(t, engine) == [t EXCEPT !.route = Append(@, engine)]

Done(t) == [t EXCEPT !.pc = "done"]

\* adapter.sendText.  WhatsAppAdapter: sock.sendMessage, then saveMessage; an
\* error of the socket is rethrown before the record is written.  WebAdapter:
\* sendEventToSession drops the event without an error when the socket is
\* not open, then saveMessage.
Say(t, tag) ==
  IF t.link = "up"
  THEN [t EXCEPT !.calls = @ + 1, !.sent = Append(@, tag),
                 !.audit = Append(@, tag)]
  ELSE IF channel(t.user) = "whatsapp"
  THEN [t EXCEPT !.calls = @ + 1, !.faulted = TRUE, !.thrown = TRUE]
  ELSE [t EXCEPT !.calls = @ + 1, !.faulted = TRUE,
                 !.audit = Append(@, tag)]

\* The phone dispatcher's own reply: sock.sendMessage, not an adapter call
Reply(t, tag) ==
  IF t.link = "up" THEN [t EXCEPT !.sent = Append(@, tag)]
  ELSE [t EXCEPT !.faulted = TRUE, !.thrown = TRUE]

\* tryHandle returned false: the dispatcher goes on with its next step
NotHandled(t) ==
  [t EXCEPT !.pc = IF t.user \in PhoneUsers THEN "d_ai" ELSE "w_enabled"]

\* handleBookingMessage's catch block: the apology, and the turn is over.
\* When the apology cannot be sent either, the error leaves
\* handleBookingMessage: tryHandle's catch turns it into "not handled" in a
\* hand-off, the dispatcher's catch logs it otherwise.
Caught(t) ==
  LET s == Say([t EXCEPT !.thrown = FALSE], "apology") IN
  IF ~s.thrown THEN Done(s)
  ELSE IF \E k \in 1..Len(t.route) : t.route[k] = "handoff"
  THEN NotHandled([s EXCEPT !.thrown = FALSE])
  ELSE Done([s EXCEPT !.thrown = FALSE, !.escaped = "handleBookingMessage"])

\* The positions of a turn inside BookingService.handleBookingMessage
BookingPcs ==
  {"b_get", "b_create", "b_extend", "b_cfg_for", "b_cfg_gender", "b_upd",
   "b_slots", "b_time", "b_rpc_check", "b_rpc_insert", "b_complete",
   "b_cancel"}

\* The positions of a turn inside WorkflowEngine.tryHandle
WorkflowPcs ==
  {"wf_settings", "wf_convo", "wf_insert", "wf_handoff", "wf_media_next",
   "wc_handoff", "wc_complete", "wc_inquiry", "wc_advance", "wc_handoff2"}

\* Where an error thrown in a step that began at position pc0 ends up: in
\* the catch of handleBookingMessage, in the catch of tryHandle and
\* continueConversation (return false), or in the dispatcher's own catch
Settle(pc0, t) ==
  IF ~t.thrown THEN t
  ELSE IF pc0 \in BookingPcs THEN Caught(t)
  ELSE IF pc0 \in WorkflowPcs THEN NotHandled([t EXCEPT !.thrown = FALSE])
  ELSE Done([t EXCEPT !.thrown = FALSE, !.escaped = "dispatcher"])

SetTurn(i, t) == turns' = [turns EXCEPT ![i] = Settle(turns[i].pc, t)]

\* A message arrives: messages.upsert (phone) or the ws 'message' event (web).
\* Neither handler queues behind the turn of an earlier event.
NewMessage(i, u, m) ==
  /\ turns[i].pc = "idle"
  /\ \A j \in Turns : j < i => turns[j].pc # "idle"
  /\ SetTurn(i, [IdleTurn EXCEPT
       !.pc = IF u \in PhoneUsers THEN "d_enabled" ELSE "wf_settings",
       !.user = u, !.msg = m,
       !.ab0 = hasActiveConversation(u),
       !.aw0 = ActiveWf(u) # {},
       !.s0 = StoredSession(u).current_step,
       !.d0 = StoredSession(u).conversation_state])
  /\ UNCHANGED <<settings, bconv, wconv, bookings, inquiries, now>>

\* The handler returned: the slot is free for the next message.
Retire(i) ==
  /\ turns[i].pc = "done"
  /\ SetTurn(i, IdleTurn)
  /\ UNCHANGED <<settings, bconv, wconv, bookings, inquiries, now>>

\* ------------------------------------------------- phone dispatcher (step 1)
\* BotManager.handleIncomingMessage: BookingService.isBookingEnabled
PhoneBookingEnabled(i) ==
  LET t == turns[i] IN
  /\ t.pc = "d_enabled"
  /\ SetTurn(i, [t EXCEPT !.be = settings.booking_enabled,
                          !.pc = IF settings.booking_enabled
                                 THEN "d_active" ELSE "wf_settings"])
  /\ UNCHANGED <<settings, bconv, wconv, bookings, inquiries, now>>

\* BotManager.handleIncomingMessage: active booking, then booking keywords,
\* both before the workflow engine
PhoneBookingCheck(i) ==
  LET t == turns[i] IN
  /\ t.pc = "d_active"
  /\ SetTurn(i,
       IF hasActiveConversation(t.user)
       THEN [Via(t, "booking_active") EXCEPT !.pc = "b_get"]
       ELSE IF isBookingTrigger(t.msg, BookingKeywords)
       THEN [Via(t, "booking_start") EXCEPT !.pc = "b_get"]
       ELSE [t EXCEPT !.pc = "wf_settings"])
  /\ UNCHANGED <<settings, bconv, wconv, bookings, inquiries, now>>

\* BotManager.handleIncomingMessage after the workflow engine declined:
\* AIService.detectIntent; a BOOKING_REQUEST of confidence >= 0.7 starts a
\* booking when the flag read at the top of the turn was on.
PhoneIntent(i, bookingIntent) ==
  LET t == turns[i] IN
  /\ t.pc = "d_ai"
  /\ SetTurn(i,
       IF t.be /\ bookingIntent
       THEN [Via(t, "booking_ai") EXCEPT !.pc = "b_get"]
       ELSE Done(Reply(Via(t, "free_form"), "ai_reply")))
  /\ UNCHANGED <<settings, bconv, wconv, bookings, inquiries, now>>

\* --------------------------------------------------- web dispatcher (step 2)
\* handleWebMessage after the workflow engine declined: isBookingEnabled
WebBookingEnabled(i) ==
  LET t == turns[i] IN
  /\ t.pc = "w_enabled"
  /\ SetTurn(i, [t EXCEPT !.be = settings.booking_enabled,
                          !.pc = IF settings.booking_enabled
                                 THEN "w_active" ELSE "w_ai"])
  /\ UNCHANGED <<settings, bconv, wconv, bookings, inquiries, now>>

\* handleWebMessage: active booking, then booking keywords
WebBookingCheck(i) ==
  LET t == turns[i] IN
  /\ t.pc = "w_active"
  /\ SetTurn(i,
       IF hasActiveConversation(t.user)
       THEN [Via(t, "booking_active") EXCEPT !.pc = "b_get"]
       ELSE IF isBookingTrigger(t.msg, BookingKeywords)
       THEN [Via(t, "booking_start") EXCEPT !.pc = "b_get"]
       ELSE [t EXCEPT !.pc = "w_ai"])
  /\ UNCHANGED <<settings, bconv, wconv, bookings, inquiries, now>>

\* handleWebMessage: intent detection is switched off; the free-form reply
WebReply(i) ==
  LET t == turns[i] IN
  /\ t.pc = "w_ai"
  /\ SetTurn(i, Done(Say(Via(t, "free_form"), "ai_reply")))
  /\ UNCHANGED <<settings, bconv, wconv, bookings, inquiries, now>>

\* ---------------------------------------------------------- workflow engine
\* Index of the workflow with the given id in the workflows table
WfIndex(id) == CHOOSE w \in 1..Len(Workflows) : Workflows[w].id = id

\* steps.findIndex(s => s.id === current_step_id), 0 when there is none
findIndex(steps, sid) ==
  IF \E k \in 1..Len(steps) : steps[k].id = sid
  THEN CHOOSE k \in 1..Len(steps) :
         steps[k].id = sid /\ \A j \in 1..(k - 1) : steps[j].id # sid
  ELSE 0

\* continueConversation: const step = idx >= 0 ? steps[idx] : steps[0]
CurrentStep(w, sid) ==
  LET steps == Workflows[w].steps
      idx == findIndex(steps, sid)
  IN IF idx > 0 THEN steps[idx] ELSE steps[1]

\* A sequencing that looks at the position only
NextStepPositional(w, sid) ==
  LET steps == Workflows[w].steps
      idx == findIndex(steps, sid)
  IN IF idx + 1 <= Len(steps) THEN steps[idx + 1].id ELSE ""

\* continueConversation: const nextId = step.next || steps[idx + 1]?.id
NextStepId(w, sid) ==
  LET steps == Workflows[w].steps
      idx == findIndex(steps, sid)
      step == CurrentStep(w, sid)
  IN IF step.next # "" THEN step.next
     ELSE IF idx + 1 <= Len(steps) THEN steps[idx + 1].id ELSE ""

\* A match that looks at the keywords only, whatever the status of the
\* workflow and whether it is switched on
MatchAnyStatus(m) ==
  LET hit(w) == \E k \in Workflows[w].keywords :
                  includes(toLowerCase(m), toLowerCase(k))
  IN IF \E w \in 1..Len(Workflows) : hit(w)
     THEN CHOOSE w \in 1..Len(Workflows) :
            hit(w) /\ \A v \in 1..(w - 1) : ~hit(v)
     ELSE 0

\* WorkflowEngine.tryHandle: the first published active workflow one of whose
\* keywords the lower-cased message includes; 0 when there is none
MatchWorkflow(m) ==
  LET hit(w) == /\ Workflows[w].is_active
                /\ Workflows[w].status = "published"
                /\ \E k \in Workflows[w].keywords :
                     includes(toLowerCase(m), toLowerCase(k))
  IN IF \E w \in 1..Len(Workflows) : hit(w)
     THEN CHOOSE w \in 1..Len(Workflows) :
            hit(w) /\ \A v \in 1..(w - 1) : ~hit(v)
     ELSE 0

\* state[key] = value on the turn's shallow clone of the workflow state
Put(s, k, v) == {p \in s : p[1] # k} \cup {<<k, v>>}

\* WorkflowEngine.tryHandle: bot_settings.workflow_enabled
WfSettings(i) ==
  LET t == turns[i] IN
  /\ t.pc = "wf_settings"
  /\ SetTurn(i, IF settings.workflow_enabled
                THEN [t EXCEPT !.pc = "wf_convo"] ELSE NotHandled(t))
  /\ UNCHANGED <<settings, bconv, wconv, bookings, inquiries, now>>

\* Number(text) on the modelled texts; NaN is -1
Number(m) ==
  CASE m = "0" -> 0 [] m = "1" -> 1 [] m = "2" -> 2 [] m = "3" -> 3
    [] OTHER -> -1

\* WorkflowEngine.parseOption: the position (from 1) of the option the
\* message selects, by number or by label; 0 for undefined
parseOption(m, options) ==
  LET trimmed == toLowerCase(m) IN
  IF Number(trimmed) >= 1 /\ Number(trimmed) <= Len(options)
  THEN Number(trimmed)
  ELSE IF \E k \in 1..Len(options) : toLowerCase(options[k].label) = trimmed
  THEN CHOOSE k \in 1..Len(options) :
         /\ toLowerCase(options[k].label) = trimmed
         /\ \A j \in 1..(k - 1) : toLowerCase(options[j].label) # trimmed
  ELSE 0

\* continueConversation up to its first write: the step's own effect on the
\* local state, then the choice between hand-off, completion and advance
ContinueLocal(t, c) ==
  LET w == WfIndex(wconv[c].workflow_id)
      sid == wconv[c].current_step_id
      step == CurrentStep(w, sid)
      t1 == [Via(t, "wf_continue") EXCEPT
               !.cid = c, !.wf = w, !.cur = sid, !.wstate = wconv[c].state]
      t2 == CASE step.type = "collect_field" ->
                   [t1 EXCEPT !.wstate = Put(@, step.id, t.msg)]
              [] step.type = "show_options" ->
                   LET choice == parseOption(t.msg, Options(step.id)) IN
                   IF choice # 0
                   THEN [t1 EXCEPT !.wstate =
                           Put(@, step.id, Options(step.id)[choice].value)]
                   ELSE t1
              [] step.type = "share_media" -> Say(t1, "wf_media")
              [] step.type = "ai_response" -> Say(t1, "ai_reply")
              [] OTHER -> t1
  IN IF step.type = "start_booking"
     THEN [t1 EXCEPT !.pc = "wc_handoff"]
     ELSE IF NextStepId(w, sid) = ""
     THEN [t2 EXCEPT !.pc = "wc_complete"]
     ELSE [t2 EXCEPT !.pc = "wc_advance"]

\* WorkflowEngine.tryHandle: the active conversation, else the trigger match
WfLookup(i) ==
  LET t == turns[i]
      c == maybeSingle(ActiveWf(t.user))
      w == MatchWorkflow(t.msg)
  IN
  /\ t.pc = "wf_convo"
  /\ SetTurn(i,
       IF c # 0 THEN ContinueLocal(t, c)
       ELSE IF w = 0 \/ Len(Workflows[w].steps) = 0
       THEN NotHandled(Via(t, "wf_nomatch"))
       ELSE [Via(t, "wf_start") EXCEPT !.pc = "wf_insert", !.wf = w])
  /\ UNCHANGED <<settings, bconv, wconv, bookings, inquiries, now>>

\* WorkflowEngine.tryHandle: insert the conversation at the first step, then
\* answer according to the type of that step
WfInsert(i) ==
  LET t == turns[i]
      first == Workflows[t.wf].steps[1]
  IN
  /\ t.pc = "wf_insert"
  /\ Len(wconv) < MaxWfRows
  /\ wconv' = Append(wconv,
       [user_key |-> t.user, workflow_id |-> Workflows[t.wf].id,
        current_step_id |-> first.id, state |-> {}, is_completed |-> FALSE])
  /\ SetTurn(i,
       CASE first.type = "start_booking" -> [t EXCEPT !.pc = "wf_handoff"]
         [] first.type = "share_media" ->
              IF first.next # ""
              THEN [Say(t, "wf_media") EXCEPT !.pc = "wf_media_next"]
              ELSE Done(Say(t, "wf_media"))
         [] OTHER -> Done(Say(t, "wf_prompt")))
  /\ UNCHANGED <<settings, bconv, bookings, inquiries, now>>

\* tryHandle, first step start_booking: complete the conversations of this
\* user and workflow, then BookingService.handleBookingMessage
WfHandoffFirst(i) ==
  LET t == turns[i] IN
  /\ t.pc = "wf_handoff"
  /\ wconv' = [c \in 1..Len(wconv) |->
       IF wconv[c].user_key = t.user
          /\ wconv[c].workflow_id = Workflows[t.wf].id
       THEN [wconv[c] EXCEPT !.is_completed = TRUE] ELSE wconv[c]]
  /\ SetTurn(i, [Via(t, "handoff") EXCEPT !.pc = "b_get"])
  /\ UNCHANGED <<settings, bconv, bookings, inquiries, now>>

\* tryHandle, first step share_media with a next: move every active
\* conversation of the user to the next step and prompt for it
WfMediaNext(i) ==
  LET t == turns[i]
      steps == Workflows[t.wf].steps
      nextId == steps[1].next
  IN
  /\ t.pc = "wf_media_next"
  /\ wconv' = [c \in 1..Len(wconv) |->
       IF wconv[c].user_key = t.user /\ ~wconv[c].is_completed
       THEN [wconv[c] EXCEPT !.current_step_id = nextId] ELSE wconv[c]]
  /\ SetTurn(i, IF findIndex(steps, nextId) > 0
                THEN Done(Say(t, "wf_prompt")) ELSE Done(t))
  /\ UNCHANGED <<settings, bconv, bookings, inquiries, now>>

\* continueConversation, current step start_booking: complete, then hand off
WcHandoffCurrent(i) ==
  LET t == turns[i] IN
  /\ t.pc = "wc_handoff"
  /\ wconv' = [wconv EXCEPT ![t.cid].is_completed = TRUE]
  /\ SetTurn(i, [Via(t, "handoff") EXCEPT !.pc = "b_get"])
  /\ UNCHANGED <<settings, bconv, bookings, inquiries, now>>

\* continueConversation, no next step: complete the conversation
WcComplete(i) ==
  LET t == turns[i] IN
  /\ t.pc = "wc_complete"
  /\ wconv' = [wconv EXCEPT ![t.cid].is_completed = TRUE,
                            ![t.cid].state = t.wstate]
  /\ SetTurn(i, IF Workflows[t.wf].save
                THEN [t EXCEPT !.pc = "wc_inquiry"]
                ELSE Done(Say(t, "wf_done")))
  /\ UNCHANGED <<settings, bconv, bookings, inquiries, now>>

\* continueConversation: the save_to_database action, then the thank-you
WcInquiry(i) ==
  LET t == turns[i] IN
  /\ t.pc = "wc_inquiry"
  /\ Len(inquiries) < MaxInquiries
  /\ inquiries' = Append(inquiries,
       [workflow_id |-> Workflows[t.wf].id, inquiry_data |-> t.wstate,
        source |-> channel(t.user),
        customer_phone |-> IF channel(t.user) = "whatsapp"
                           THEN t.user ELSE ""])
  /\ SetTurn(i, Done(Say([t EXCEPT !.inq = @ + 1], "wf_done")))
  /\ UNCHANGED <<settings, bconv, wconv, bookings, now>>

\* continueConversation: move to the next step; a next step of type
\* start_booking is handed off at once, any other is prompted for
WcAdvance(i) ==
  LET t == turns[i]
      steps == Workflows[t.wf].steps
      nextId == NextStepId(t.wf, t.cur)
      k == findIndex(steps, nextId)
      idx == findIndex(steps, t.cur)
      next == IF k > 0 THEN k ELSE IF idx + 1 <= Len(steps) THEN idx + 1 ELSE 0
  IN
  /\ t.pc = "wc_advance"
  /\ wconv' = [wconv EXCEPT ![t.cid].current_step_id = nextId,
                            ![t.cid].state = t.wstate]
  /\ SetTurn(i,
       IF next = 0 THEN Done(t)
       ELSE IF steps[next].type = "start_booking"
       THEN [t EXCEPT !.pc = "wc_handoff2"]
       ELSE Done(Say(t, "wf_prompt")))
  /\ UNCHANGED <<settings, bconv, bookings, inquiries, now>>

\* continueConversation, next step start_booking: complete, then hand off
WcHandoffNext(i) ==
  LET t == turns[i] IN
  /\ t.pc = "wc_handoff2"
  /\ wconv' = [wconv EXCEPT ![t.cid].is_completed = TRUE,
                            ![t.cid].state = t.wstate]
  /\ SetTurn(i, [Via(t, "handoff") EXCEPT !.pc = "b_get"])
  /\ UNCHANGED <<settings, bconv, bookings, inquiries, now>>

\* -------------------------------------------------------------- share_media
\* The optional methods a MessagingAdapter may have besides sendText
Capabilities == SUBSET {"sendDocument", "sendRich"}

\* bot_media rows as getBotMedia returns them; hasFile: fileUrl and fileName
MediaItems ==
  [mediaType : {"image", "video", "document", "audio"}, hasFile : BOOLEAN]

\* The media lists of at most MaxMedia items
MediaLists ==
  UNION {[1..n -> MediaItems] : n \in 0..MaxMedia}

\* The body of the loop over the items: the adapter call made for item k
SendItem(caps, item, k) ==
  IF ~item.hasFile THEN <<>>
  ELSE IF item.mediaType = "document"
  THEN IF "sendDocument" \in caps
       THEN << [via |-> "sendDocument", item |-> k] >>
       ELSE << [via |-> "sendText", item |-> k] >>
  ELSE IF item.mediaType \in {"image", "video"} /\ "sendRich" \in caps
  THEN << [via |-> "sendRich", item |-> k] >>
  ELSE <<>>

RECURSIVE SendItems(_, _, _)
SendItems(caps, media, k) ==
  IF k > Len(media) THEN <<>>
  ELSE (IF media[k].mediaType \in {"image", "video", "document"}
        THEN SendItem(caps, media[k], k) ELSE <<>>)
       \o SendItems(caps, media, k + 1)

\* The share_media branch of tryHandle and continueConversation: the prompt,
\* then one call per item of kind image, video or document
shareMedia(caps, media) ==
  << [via |-> "sendText", item |-> 0] >> \o SendItems(caps, media, 1)

\* A share_media step runs on an adapter with the optional methods caps for
\* a bot that holds the given media
ShareMediaStep(i, caps, media) ==
  /\ turns[i].pc = "idle"
  /\ SetTurn(i, [IdleTurn EXCEPT !.pc = "done", !.caps = caps,
                                 !.media = media,
                                 !.out = shareMedia(caps, media)])
  /\ UNCHANGED <<settings, bconv, wconv, bookings, inquiries, now>>

\* --------------------------------------------------------------- validators
\* /^\d+$/.test(input) and parseInt(input) on the modelled texts
IsNumber(m) == m \in {"0", "1", "2", "3"}
parseInt(m) ==
  IF m = "1" THEN 1 ELSE IF m = "2" THEN 2 ELSE IF m = "3" THEN 3 ELSE 0

\* /^[a-zA-Z\s.'-]+$/ on the modelled texts
IsNameText(m) == m \in {"cancel", "CANCEL", "y", "jane", "BLUE"}

\* string length >= 2 on the modelled texts
MinTwo(m) == m \notin {"y", "0", "1", "2", "3"}

\* BookingValidator.validateName (nameSchema)
validateName(m) ==
  IF MinTwo(m) /\ IsNameText(m) THEN [valid |-> TRUE, value |-> m]
  ELSE [valid |-> FALSE, value |-> ""]

\* BookingValidator.validateBookingFor (bookingForSchema)
validateBookingFor(m) ==
  LET v == toLowerCase(m) IN
  IF MinTwo(m) /\ (v \in {"self", "myself", "me"} \/ IsNameText(v))
  THEN [valid |-> TRUE, value |-> v]
  ELSE [valid |-> FALSE, value |-> ""]

\* handleGenderInput's menu numbers, then BookingValidator.validateGender
validateGender(m) ==
  LET input == IF m = "1" THEN "male" ELSE IF m = "2" THEN "female"
               ELSE IF m = "3" THEN "other" ELSE m
      v == toLowerCase(input)
  IN IF v \in {"male", "female", "other", "m", "f", "o"}
     THEN [valid |-> TRUE,
           value |-> IF v \in {"m", "male"} THEN "male"
                     ELSE IF v \in {"f", "female"} THEN "female" ELSE "other"]
     ELSE [valid |-> FALSE, value |-> ""]

\* BookingValidator.validateConfirmation (confirmationSchema)
validateConfirmation(m) ==
  LET v == toLowerCase(m) IN
  IF v \in {"confirm", "yes", "y", "ok", "okay", "cancel", "no", "n"}
  THEN [valid |-> TRUE, value |-> v \in {"confirm", "yes", "y", "ok", "okay"}]
  ELSE [valid |-> FALSE, value |-> FALSE]

\* business_services.price of a service without a price (the column is
\* nullable; showServices prints "Price on request")
NullPrice == -1

\* business_services of the business, active, by display_order
Services == << [name |-> "haircut", price |-> 500],
              [name |-> "consult", price |-> NullPrice] >>

\* conversationStateSchema.parse of a stored conversation_state:
\* servicePrice is z.number().optional(), which a stored null does not pass
conversationStateSchema(data) == data.servicePrice # NullPrice

\* handleServiceInput: a 1-based number, else the first service whose
\* lower-cased name equals or includes the input; 0 when none is selected
selectService(m) ==
  LET input == toLowerCase(m) IN
  IF IsNumber(input)
  THEN IF parseInt(input) - 1 >= 0 /\ parseInt(input) - 1 < Len(Services)
       THEN parseInt(input) ELSE 0
  ELSE IF \E k \in 1..Len(Services) : Services[k].name = input
       THEN CHOOSE k \in 1..Len(Services) : Services[k].name = input
       ELSE 0

\* handleDateInput: a 1-based number into the date window; 0 when invalid
selectDate(m) ==
  LET input == toLowerCase(m) IN
  IF IsNumber(input) /\ parseInt(input) - 1 >= 0
     /\ parseInt(input) - 1 < MaxDates
  THEN parseInt(input) ELSE 0

\* A selection that takes a number beyond the list as the last slot
selectTimeClamped(m, slots) ==
  IF IsNumber(m) /\ parseInt(m) - 1 >= 0 /\ Len(slots) > 0
  THEN IF parseInt(m) - 1 < Len(slots) THEN slots[parseInt(m)]
       ELSE slots[Len(slots)]
  ELSE 0

\* handleTimeInput: a 1-based number into availableSlots; 0 when invalid
selectTime(m, slots) ==
  IF IsNumber(m) /\ parseInt(m) - 1 >= 0 /\ parseInt(m) - 1 < Len(slots)
  THEN slots[parseInt(m)] ELSE 0

\* ----------------------------------------------------------- booking engine
\* handleBookingMessage after getOrCreateState and extendExpiry: the global
\* cancel, then the handler of the current step up to its first storage call
Dispatch(t) ==
  IF toLowerCase(t.msg) = "cancel" /\ t.step # "confirming"
  THEN [t EXCEPT !.pc = "b_cancel"]
  ELSE CASE t.step = "collecting_name" ->
              IF validateName(t.msg).valid
              THEN [t EXCEPT !.data.customerName = validateName(t.msg).value,
                             !.pc = "b_cfg_for"]
              ELSE Done(Say(t, "invalid"))
         [] t.step = "collecting_booking_for" ->
              IF validateBookingFor(t.msg).valid
              THEN [t EXCEPT !.data.bookingFor = validateBookingFor(t.msg).value,
                             !.pc = "b_cfg_gender"]
              ELSE Done(Say(t, "invalid"))
         [] t.step = "collecting_gender" ->
              IF validateGender(t.msg).valid
              THEN [t EXCEPT !.data.gender = validateGender(t.msg).value,
                             !.step = "showing_services", !.pc = "b_upd"]
              ELSE Done(Say(t, "invalid"))
         [] t.step = "collecting_service" ->
              IF selectService(t.msg) # 0
              THEN [t EXCEPT
                     !.data.serviceId = selectService(t.msg),
                     !.data.serviceName = Services[selectService(t.msg)].name,
                     !.data.servicePrice = Services[selectService(t.msg)].price,
                     !.step = "showing_dates", !.pc = "b_upd"]
              ELSE Done(Say(t, "invalid"))
         [] t.step = "collecting_date" ->
              IF selectDate(t.msg) # 0
              THEN [t EXCEPT !.data.bookingDate = selectDate(t.msg),
                             !.step = "showing_time_slots", !.pc = "b_upd"]
              ELSE Done(Say(t, "invalid"))
         [] t.step = "collecting_time" -> [t EXCEPT !.pc = "b_time"]
         [] t.step = "confirming" ->
              IF ~validateConfirmation(t.msg).valid
              THEN Done(Say(t, "invalid"))
              ELSE IF ~validateConfirmation(t.msg).value
              THEN [t EXCEPT !.pc = "b_cancel"]
              ELSE [t EXCEPT !.pc = "b_rpc_check"]
         [] OTHER -> [t EXCEPT !.step = "collecting_name", !.pc = "b_upd"]

\* A getOrCreateState that starts every turn from a blank state
BGetBlank(i) ==
  LET t == turns[i]
      rows == ActiveRows(t.user)
  IN
  /\ t.pc = "b_get"
  /\ SetTurn(i,
       IF single(rows)
       THEN [t EXCEPT !.step = "idle", !.data = NoData,
                      !.rstep = "idle", !.rdata = NoData, !.pc = "b_extend"]
       ELSE [t EXCEPT !.pc = "b_create"])
  /\ UNCHANGED <<settings, bconv, wconv, bookings, inquiries, now>>

\* BookingStateManager.getOrCreateState: the select of the active row and
\* the parse of what it holds; a row that does not parse makes the call throw
BGet(i) ==
  LET t == turns[i]
      rows == ActiveRows(t.user)
  IN
  /\ t.pc = "b_get"
  /\ SetTurn(i,
       IF single(rows)
       THEN LET r == CHOOSE r \in rows : TRUE IN
            IF conversationStateSchema(r.conversation_state)
            THEN [t EXCEPT !.step = r.current_step,
                           !.data = r.conversation_state,
                           !.rstep = r.current_step,
                           !.rdata = r.conversation_state,
                           !.pc = "b_extend"]
            ELSE Caught(t)
       ELSE [t EXCEPT !.pc = "b_create"])
  /\ UNCHANGED <<settings, bconv, wconv, bookings, inquiries, now>>

\* An insert of the fresh IDLE row on a table without the unique constraint
BCreateUnchecked(i) ==
  LET t == turns[i] IN
  /\ t.pc = "b_create"
  /\ bconv' = bconv \cup
       {[customer_phone |-> t.user, current_step |-> "idle",
         conversation_state |-> NoData, is_completed |-> FALSE,
         expires_at |-> now + ExpiryMinutes + Cardinality(bconv)]}
  /\ SetTurn(i, [t EXCEPT !.step = "idle", !.data = NoData,
                          !.rstep = "idle", !.rdata = NoData,
                          !.pc = "b_extend"])
  /\ UNCHANGED <<settings, wconv, bookings, inquiries, now>>

\* BookingStateManager.getOrCreateState: the insert of a fresh IDLE row; the
\* unique constraint rejects it when an active row was inserted meanwhile
BCreate(i) ==
  LET t == turns[i] IN
  /\ t.pc = "b_create"
  /\ IF ActiveRows(t.user) # {}
     THEN /\ SetTurn(i, Caught(t))
          /\ UNCHANGED bconv
     ELSE /\ bconv' = bconv \cup
               {[customer_phone |-> t.user, current_step |-> "idle",
                 conversation_state |-> NoData, is_completed |-> FALSE,
                 expires_at |-> now + ExpiryMinutes]}
          /\ SetTurn(i, [t EXCEPT !.step = "idle", !.data = NoData,
                                  !.rstep = "idle", !.rdata = NoData,
                                  !.pc = "b_extend"])
  /\ UNCHANGED <<settings, wconv, bookings, inquiries, now>>

\* BookingStateManager.extendExpiry, then the handler's local part
BExtend(i) ==
  LET t == turns[i] IN
  /\ t.pc = "b_extend"
  /\ bconv' = {IF r \in ActiveRows(t.user)
               THEN [r EXCEPT !.expires_at = now + ExpiryMinutes] ELSE r
               : r \in bconv}
  /\ SetTurn(i, Dispatch(t))
  /\ UNCHANGED <<settings, wconv, bookings, inquiries, now>>

\* handleNameInput: bot_settings.booking_require_booking_for decides the step
BCfgFor(i) ==
  LET t == turns[i] IN
  /\ t.pc = "b_cfg_for"
  /\ SetTurn(i,
       IF settings.booking_require_booking_for
       THEN [t EXCEPT !.step = "collecting_booking_for", !.pc = "b_upd"]
       ELSE [t EXCEPT !.data.bookingFor = "self",
                      !.step = "collecting_gender", !.pc = "b_upd"])
  /\ UNCHANGED <<settings, bconv, wconv, bookings, inquiries, now>>

\* A handleBookingForInput that never asks for the gender
BCfgGenderSkips(i) ==
  LET t == turns[i] IN
  /\ t.pc = "b_cfg_gender"
  /\ SetTurn(i, [t EXCEPT !.step = "showing_services", !.pc = "b_upd"])
  /\ UNCHANGED <<settings, bconv, wconv, bookings, inquiries, now>>

\* handleBookingForInput: bot_settings.booking_require_gender decides the step
BCfgGender(i) ==
  LET t == turns[i] IN
  /\ t.pc = "b_cfg_gender"
  /\ SetTurn(i,
       IF settings.booking_require_gender
       THEN [t EXCEPT !.step = "collecting_gender", !.pc = "b_upd"]
       ELSE [t EXCEPT !.step = "showing_services", !.pc = "b_upd"])
  /\ UNCHANGED <<settings, bconv, wconv, bookings, inquiries, now>>

\* What follows BookingStateManager.updateState(state) in the handlers:
\* showServices and showAvailableDates move on to the collecting step and
\* store it, showAvailableTimeSlots fetches the slots, any other step is
\* announced to the user and ends the turn.
AfterUpdate(t) ==
  CASE t.step = "showing_services" -> [t EXCEPT !.step = "collecting_service"]
    [] t.step = "showing_dates" -> [t EXCEPT !.step = "collecting_date"]
    [] t.step = "showing_time_slots" -> [t EXCEPT !.pc = "b_slots"]
    [] OTHER -> Done(Say(t, t.step))

\* BookingStateManager.updateState: the turn's state object is written to the
\* active row of the user
BUpd(i) ==
  LET t == turns[i] IN
  /\ t.pc = "b_upd"
  /\ bconv' = {IF r \in ActiveRows(t.user)
               THEN [r EXCEPT !.current_step = t.step,
                              !.conversation_state = t.data]
               ELSE r : r \in bconv}
  /\ SetTurn(i, AfterUpdate(t))
  /\ UNCHANGED <<settings, wconv, bookings, inquiries, now>>

\* showAvailableTimeSlots: get_available_time_slots; with no slot to offer
\* the user is sent back to the dates
BSlots(i) ==
  LET t == turns[i]
      slots == availableSlots(t.data.bookingDate)
  IN
  /\ t.pc = "b_slots"
  /\ SetTurn(i,
       IF Len(slots) = 0
       THEN [Say(t, "no_slots") EXCEPT !.step = "showing_dates", !.pc = "b_upd"]
       ELSE [t EXCEPT !.avail = slots, !.step = "collecting_time",
                      !.pc = "b_upd"])
  /\ UNCHANGED <<settings, bconv, wconv, bookings, inquiries, now>>

\* handleTimeInput: the slots are fetched again and the number indexes them
BTime(i) ==
  LET t == turns[i]
      slots == availableSlots(t.data.bookingDate)
      selectedTime == selectTime(t.msg, slots)
  IN
  /\ t.pc = "b_time"
  /\ SetTurn(i,
       IF selectedTime = 0 THEN Done(Say([t EXCEPT !.avail = slots], "invalid"))
       ELSE [t EXCEPT !.avail = slots, !.data.bookingTime = selectedTime,
                      !.step = "confirming", !.pc = "b_upd"])
  /\ UNCHANGED <<settings, bconv, wconv, bookings, inquiries, now>>

\* A refusal that throws the collected answers away
SlotTakenForgets(t, message) ==
  [Say(t, "slot_taken") EXCEPT !.res = message, !.data = NoData,
                               !.step = "showing_time_slots", !.pc = "b_upd"]

\* handleConfirmation when create_booking_safe reports success = false: the
\* message, then back to SHOWING_TIME_SLOTS
SlotTaken(t, message) ==
  [Say(t, "slot_taken") EXCEPT !.res = message,
                               !.step = "showing_time_slots", !.pc = "b_upd"]

\* create_booking_safe, first statement: is_time_slot_available
BRpcCheck(i) ==
  LET t == turns[i] IN
  /\ t.pc = "b_rpc_check"
  /\ SetTurn(i,
       IF t.data.bookingDate = 0 \/ t.data.bookingTime = 0
       THEN Done(Say([t EXCEPT !.res = "error"], "booking_error"))
       ELSE IF is_time_slot_available(t.data.bookingDate, t.data.bookingTime)
       THEN [t EXCEPT !.pc = "b_rpc_insert"]
       ELSE SlotTaken(t, "no_longer_available"))
  /\ UNCHANGED <<settings, bconv, wconv, bookings, inquiries, now>>

\* The row create_booking_safe inserts
NewBooking(t) ==
  [customer_phone |-> t.user, booking_date |-> t.data.bookingDate,
   booking_time |-> t.data.bookingTime, status |-> "pending"]

\* create_booking_safe, second statement: the INSERT under
\* idx_bookings_unique_slot; unique_violation becomes success = false
BRpcInsert(i) ==
  LET t == turns[i]
      B == Append(bookings, NewBooking(t))
  IN
  /\ t.pc = "b_rpc_insert"
  /\ IF idx_bookings_unique_slot(B)
     THEN /\ Len(bookings) < MaxBookings
          /\ bookings' = B
          /\ SetTurn(i, [t EXCEPT !.res = "ok", !.made = Len(B),
                                  !.pc = "b_complete"])
     ELSE /\ UNCHANGED bookings
          /\ SetTurn(i, SlotTaken(t, "just_booked"))
  /\ UNCHANGED <<settings, bconv, wconv, inquiries, now>>

\* BookingStateManager.completeConversation, then the confirmation message
BComplete(i) ==
  LET t == turns[i] IN
  /\ t.pc = "b_complete"
  /\ IF CompletionConflict(t.user)
     THEN /\ UNCHANGED bconv
          /\ SetTurn(i, Caught(t))
     ELSE /\ bconv' = {IF r \in ActiveRows(t.user)
                       THEN [r EXCEPT !.is_completed = TRUE,
                                      !.current_step = "completed"]
                       ELSE r : r \in bconv}
          /\ SetTurn(i, Done(Say(t, "booked")))
  /\ UNCHANGED <<settings, wconv, bookings, inquiries, now>>

\* handleCancel: BookingStateManager.cancelConversation, then the message
BCancel(i) ==
  LET t == turns[i] IN
  /\ t.pc = "b_cancel"
  /\ IF CompletionConflict(t.user)
     THEN /\ UNCHANGED bconv
          /\ SetTurn(i, Caught(t))
     ELSE /\ bconv' = {IF r \in ActiveRows(t.user)
                       THEN [r EXCEPT !.is_completed = TRUE,
                                      !.current_step = "idle"]
                       ELSE r : r \in bconv}
          /\ SetTurn(i, Done(Say(t, "cancelled")))
  /\ UNCHANGED <<settings, wconv, bookings, inquiries, now>>

\* ----------------------------------------------------------------- operator
\* A status update on a table without idx_bookings_unique_slot
SetBookingStatusUnchecked(k, status) ==
  /\ k \in 1..Len(bookings)
  /\ bookings[k].status # status
  /\ bookings' = [bookings EXCEPT ![k].status = status]
  /\ UNCHANGED <<settings, bconv, wconv, inquiries, now, turns>>

\* PUT /:botId/bookings/:bookingId/status: any of the five statuses; the
\* update is refused when it would break idx_bookings_unique_slot
SetBookingStatus(k, status) ==
  LET B == [bookings EXCEPT ![k].status = status] IN
  /\ k \in 1..Len(bookings)
  /\ bookings[k].status # status
  /\ idx_bookings_unique_slot(B)
  /\ bookings' = B
  /\ UNCHANGED <<settings, bconv, wconv, inquiries, now, turns>>

\* The owner switches bot_settings.booking_enabled
SetBookingEnabled(v) ==
  /\ settings.booking_enabled # v
  /\ settings' = [settings EXCEPT !.booking_enabled = v]
  /\ UNCHANGED <<bconv, wconv, bookings, inquiries, now, turns>>

\* PUT /:id/settings: the owner switches one of the flags that make the
\* booking engine ask who the booking is for and for the gender
UpdateBotSettings(flag, v) ==
  /\ flag \in {"booking_require_booking_for", "booking_require_gender"}
  /\ settings[flag] # v
  /\ settings' = [settings EXCEPT ![flag] = v]
  /\ UNCHANGED <<bconv, wconv, bookings, inquiries, now, turns>>

\* ------------------------------------------------------------------- faults
\* The transport of the adapter of turn i goes down (the WhatsApp socket
\* closes, the visitor's WebSocket is gone) or comes back
LinkDown(i) ==
  /\ turns[i].pc \notin {"idle", "done"}
  /\ turns[i].link = "up"
  /\ turns' = [turns EXCEPT ![i].link = "down"]
  /\ UNCHANGED <<settings, bconv, wconv, bookings, inquiries, now>>

LinkUp(i) ==
  /\ turns[i].pc \notin {"idle", "done"}
  /\ turns[i].link = "down"
  /\ turns' = [turns EXCEPT ![i].link = "up"]
  /\ UNCHANGED <<settings, bconv, wconv, bookings, inquiries, now>>

\* The storage call a booking turn is about to make fails.  getOrCreateState
\* goes on to its insert when the select fails and throws when the insert
\* fails; extendExpiry swallows the error; a failed read of bot_settings
\* leaves the requirement on; updateState, completeConversation and
\* cancelConversation throw; a failed get_available_time_slots is answered
\* as a day without slots (showAvailableTimeSlots) or with an error message
\* (handleTimeInput); a failed create_booking_safe with an error message.
StorageFault(i) ==
  LET t == [turns[i] EXCEPT !.faulted = TRUE] IN
  /\ t.pc \in BookingPcs
  /\ SetTurn(i,
       CASE t.pc = "b_get" -> [t EXCEPT !.pc = "b_create"]
         [] t.pc = "b_extend" -> Dispatch(t)
         [] t.pc = "b_cfg_for" ->
              [t EXCEPT !.step = "collecting_booking_for", !.pc = "b_upd"]
         [] t.pc = "b_cfg_gender" ->
              [t EXCEPT !.step = "collecting_gender", !.pc = "b_upd"]
         [] t.pc = "b_slots" ->
              [Say(t, "no_slots") EXCEPT !.step = "showing_dates",
                                         !.pc = "b_upd"]
         [] t.pc = "b_time" -> Done(Say(t, "fetch_error"))
         [] t.pc \in {"b_rpc_check", "b_rpc_insert"} ->
              Done(Say([t EXCEPT !.res = "error"], "booking_error"))
         [] OTHER -> Caught(t))
  /\ UNCHANGED <<settings, bconv, wconv, bookings, inquiries, now>>

\* ------------------------------------------------------------------ process
\* The process is killed and started again while no handler is running: what
\* the handlers left in memory is gone, the tables are as they were
Restart ==
  /\ \A i \in Turns : turns[i].pc \in {"idle", "done"}
  /\ \E i \in Turns : turns[i].pc = "done"
  /\ turns' = [i \in Turns |-> IdleTurn]
  /\ UNCHANGED <<settings, bconv, wconv, bookings, inquiries, now>>

\* -------------------------------------------------------------------- clock
\* The rows cleanupExpiredConversations selects at time t:
\* .lt('expires_at', t).eq('is_completed', false)
Expired(t) == {r \in bconv : ~r.is_completed /\ r.expires_at < t}

\* UNIQUE(bot_id, customer_phone, is_completed) when the rows S are set to
\* is_completed = true in one statement
SweepConflict(S) ==
  \E r \in S : \E c \in bconv :
    c.customer_phone = r.customer_phone /\ c.is_completed

\* BookingStateManager.cleanupExpiredConversations at time t: one UPDATE of
\* is_completed; when the statement fails, the error is logged, no row is
\* changed and 0 is returned
cleanupExpiredConversations(t) ==
  IF SweepConflict(Expired(t)) THEN bconv
  ELSE {IF r \in Expired(t) THEN [r EXCEPT !.is_completed = TRUE] ELSE r
        : r \in bconv}

\* A minute passes in which the cleanup timer does not fire
Tick ==
  /\ now < MaxNow
  /\ (now + 1) % SweepMinutes # 0
  /\ now' = now + 1
  /\ UNCHANGED <<settings, bconv, wconv, bookings, inquiries, turns>>

\* A minute passes and the cleanup timer fires: the sweep
SweepTimer ==
  /\ now < MaxNow
  /\ (now + 1) % SweepMinutes = 0
  /\ now' = now + 1
  /\ bconv' = cleanupExpiredConversations(now')
  /\ UNCHANGED <<settings, wconv, bookings, inquiries, turns>>

\* --------------------------------------------------------------------- next
\* BotManager.handleIncomingMessage around the engines
PhoneStep(i) ==
  \/ PhoneBookingEnabled(i) \/ PhoneBookingCheck(i)
  \/ \E b \in BOOLEAN : PhoneIntent(i, b)

\* handleWebMessage around the engines
WebStep(i) == WebBookingEnabled(i) \/ WebBookingCheck(i) \/ WebReply(i)

\* WorkflowEngine.tryHandle and continueConversation past the settings
WorkflowStep(i) ==
  \/ WfLookup(i) \/ WfInsert(i) \/ WfHandoffFirst(i)
  \/ WfMediaNext(i) \/ WcHandoffCurrent(i) \/ WcComplete(i) \/ WcInquiry(i)
  \/ WcAdvance(i) \/ WcHandoffNext(i)

\* The booking engine: reading, creating and writing the session
SessionStep(i) == BGet(i) \/ BCreate(i) \/ BExtend(i) \/ BUpd(i)

\* The booking engine: the steps from the name to the reservation
BookingStep(i) ==
  \/ BCfgFor(i) \/ BCfgGender(i) \/ BSlots(i) \/ BTime(i)
  \/ BRpcCheck(i) \/ BRpcInsert(i) \/ BComplete(i)

Step(i) ==
  \/ PhoneStep(i) \/ WebStep(i) \/ WfSettings(i) \/ WorkflowStep(i)
  \/ SessionStep(i) \/ BookingStep(i) \/ BCancel(i) \/ Retire(i)

Statuses == {"pending", "confirmed", "cancelled", "completed", "no_show"}

\* The whole system: any message of any user at any time, and the operator
Next ==
  \/ \E i \in Turns, u \in Users, m \in Msgs : NewMessage(i, u, m)
  \/ \E i \in Turns : Step(i)
  \/ \E k \in 1..MaxBookings, s \in Statuses : SetBookingStatus(k, s)
  \/ \E v \in BOOLEAN : SetBookingEnabled(v)
  \/ \E flag \in {"booking_require_booking_for", "booking_require_gender"},
        v \in BOOLEAN : UpdateBotSettings(flag, v)

Spec == Init /\ [][Next]_vars

\* A turn of user u is in flight
InFlight(u) == \E j \in Turns : turns[j].pc # "idle" /\ turns[j].user = u

\* A customer who waits for the reply before writing again
Arrive(i, u, m) == ~InFlight(u) /\ NewMessage(i, u, m)

\* ------------------------------------------------------ reservation scenario
\* Two customers, one on each channel, book on a bot without workflows.  Each
\* waits for the reply to a message before sending the next; the turns of the
\* two customers interleave freely.  The calendar is empty at first, or holds
\* the reservation another customer made earlier for the last slot of date 1.
ReserveMsgs == {"book!", "jane", "1", "y"}

EarlierBooking ==
  [customer_phone |-> "c0", booking_date |-> 1, booking_time |-> MaxTimes,
   status |-> "pending"]

InitReserve ==
  /\ settings = [booking_enabled |-> TRUE, workflow_enabled |-> FALSE,
                 booking_require_booking_for |-> TRUE,
                 booking_require_gender |-> TRUE]
  /\ bconv = {}
  /\ wconv = <<>>
  /\ bookings \in {<<>>, <<EarlierBooking>>}
  /\ inquiries = <<>>
  /\ now = 0
  /\ turns = [i \in Turns |-> IdleTurn]

NextReserve ==
  \/ \E i \in Turns, u \in Users, m \in ReserveMsgs : Arrive(i, u, m)
  \/ \E i \in Turns :
       \/ PhoneStep(i) \/ WebStep(i) \/ WfSettings(i)
       \/ SessionStep(i) \/ BookingStep(i) \/ Retire(i)

SpecReserve == InitReserve /\ [][NextReserve]_vars

\* --------------------------------------------------------- operator scenario
\* One phone customer books, one message at a time, while the owner changes
\* the status of reservations from the dashboard.
NextOperator ==
  \/ \E m \in ReserveMsgs : NewMessage(1, "p1", m)
  \/ PhoneStep(1) \/ WfSettings(1)
  \/ SessionStep(1) \/ BookingStep(1) \/ Retire(1)
  \/ \E k \in 1..MaxBookings, s \in Statuses : SetBookingStatus(k, s)

SpecOperator == InitReserve /\ [][NextOperator]_vars

\* ------------------------------------------------------------ burst scenario
\* One phone customer sends booking messages in quick succession: a message
\* arrives while the turns of the earlier ones are still running.
BurstMsgs == {"book!", "jane"}

NextBurst ==
  \/ \E i \in Turns, m \in BurstMsgs : NewMessage(i, "p1", m)
  \/ \E i \in Turns :
       \/ PhoneStep(i) \/ WfSettings(i) \/ WfLookup(i)
       \/ SessionStep(i) \/ BCfgFor(i) \/ BCfgGender(i) \/ Retire(i)

SpecBurst == Init /\ [][NextBurst]_vars

\* ---------------------------------------------------------- trigger scenario
\* One web visitor sends the trigger of the inquiry workflow, and answers to
\* it, in quick succession.
TriggerMsgs == {"info?"}

NextTrigger ==
  \/ \E i \in Turns, m \in TriggerMsgs : NewMessage(i, "w1", m)
  \/ \E i \in Turns :
       \/ WfSettings(i) \/ WfLookup(i) \/ WfInsert(i)
       \/ WcAdvance(i) \/ WcComplete(i) \/ WcInquiry(i) \/ Retire(i)

SpecTrigger == Init /\ [][NextTrigger]_vars

\* --------------------------------------------------------- dispatch scenario
\* A phone customer and a web visitor write booking keywords and workflow
\* triggers, one message at a time, while the owner switches the booking
\* system off and on.
DispatchMsgs == {"book!", "book info!", "visit?", "plan?", "tour?"}

NextDispatch ==
  \/ \E u \in Users, m \in DispatchMsgs : NewMessage(1, u, m)
  \/ PhoneStep(1) \/ WebStep(1) \/ WfSettings(1) \/ WorkflowStep(1)
  \/ SessionStep(1) \/ Retire(1)
  \/ \E v \in BOOLEAN : SetBookingEnabled(v)

SpecDispatch == Init /\ [][NextDispatch]_vars

\* ----------------------------------------------------------- expiry scenario
\* One customer on the phone who books, answers and cancels during the first
\* LastArrival minutes and is silent from then on, while the clock runs and
\* the cleanup timer fires every SweepMinutes.
ExpiryMsgs == {"book!", "jane", "cancel"}

NextExpiry ==
  \/ \E m \in ExpiryMsgs : now <= LastArrival /\ NewMessage(1, "p1", m)
  \/ PhoneStep(1) \/ WfSettings(1) \/ WfLookup(1) \/ SessionStep(1)
  \/ BCfgFor(1) \/ BCancel(1) \/ Retire(1)
  \/ Tick \/ SweepTimer

SpecExpiry == Init /\ [][NextExpiry]_vars

\* ----------------------------------------------------- conversation scenario
\* One customer on the phone goes through booking conversations, one message
\* at a time, with valid and invalid answers and cancellations, on a bot
\* without workflows; the process may be restarted between two turns.
ConverseMsgs == {"book!", "jane", "1", "2", "y", "cancel", "CANCEL"}

NextConverse ==
  \/ \E m \in ConverseMsgs : NewMessage(1, "p1", m)
  \/ PhoneStep(1) \/ WfSettings(1) \/ SessionStep(1) \/ BookingStep(1)
  \/ BCancel(1) \/ Retire(1) \/ Restart

SpecConverse == InitReserve /\ [][NextConverse]_vars

\* ------------------------------------------------------------ fault scenario
\* One customer on the phone books while single storage calls fail and the
\* WhatsApp socket goes down and comes back during the turns.
NextFault ==
  \/ \E m \in ReserveMsgs : NewMessage(1, "p1", m)
  \/ PhoneStep(1) \/ WfSettings(1) \/ SessionStep(1) \/ BookingStep(1)
  \/ Retire(1)
  \/ LinkDown(1) \/ LinkUp(1) \/ StorageFault(1)

SpecFault == InitReserve /\ [][NextFault]_vars

\* ---------------------------------------------------- configuration scenario
\* One customer on the phone answers the questions of the booking engine up
\* to the confirmation, a message arriving while the turn of the earlier one
\* may still run, on a bot with any of the four settings of the two flags
\* that make the engine ask who the booking is for and for the gender.
ConfigMsgs == {"book!", "jane", "1"}

InitConfig ==
  /\ settings \in [booking_enabled : {TRUE}, workflow_enabled : {FALSE},
                   booking_require_booking_for : BOOLEAN,
                   booking_require_gender : BOOLEAN]
  /\ bconv = {}
  /\ wconv = <<>>
  /\ bookings = <<>>
  /\ inquiries = <<>>
  /\ now = 0
  /\ turns = [i \in Turns |-> IdleTurn]

NextConfig ==
  \/ \E i \in Turns, m \in ConfigMsgs : NewMessage(i, "p1", m)
  \/ \E i \in Turns :
       \/ PhoneStep(i) \/ WfSettings(i) \/ SessionStep(i)
       \/ BCfgFor(i) \/ BCfgGender(i) \/ BSlots(i) \/ BTime(i) \/ Retire(i)

SpecConfig == InitConfig /\ [][NextConfig]_vars

\* ------------------------------------------------------------ drift scenario
\* One customer on the phone answers the questions of the booking engine,
\* one message at a time, on a bot that asks who the booking is for and for
\* the gender; the owner edits the two flags only after the conversation of
\* the customer has started.
ChangeMidFlow(flag, v) ==
  /\ hasActiveConversation("p1")
  /\ UpdateBotSettings(flag, v)

NextDrift ==
  \/ \E m \in ConfigMsgs : NewMessage(1, "p1", m)
  \/ PhoneStep(1) \/ WfSettings(1) \/ SessionStep(1)
  \/ BCfgFor(1) \/ BCfgGender(1) \/ BSlots(1) \/ BTime(1) \/ Retire(1)
  \/ \E flag \in {"booking_require_booking_for", "booking_require_gender"},
        v \in BOOLEAN : ChangeMidFlow(flag, v)

SpecDrift == InitReserve /\ [][NextDrift]_vars

\* ------------------------------------------------------- time-slot scenario
\* One customer on the phone goes up to the choice of the time and answers it
\* with numbers inside and outside the list and with a time written out,
\* while the owner changes the status of the earlier reservation, so that
\* the list fetched by a turn may differ from the list shown before.
TimeMsgs == {"book!", "jane", "0", "1", "2", "3", "10:00"}

NextTime ==
  \/ \E m \in TimeMsgs : NewMessage(1, "p1", m)
  \/ PhoneStep(1) \/ WfSettings(1) \/ SessionStep(1)
  \/ BCfgFor(1) \/ BCfgGender(1) \/ BSlots(1) \/ BTime(1) \/ Retire(1)
  \/ \E k \in 1..MaxBookings, s \in {"pending", "cancelled"} :
       SetBookingStatus(k, s)

SpecTime == InitReserve /\ [][NextTime]_vars

\* ------------------------------------------------------------ match scenario
\* One web visitor writes texts that contain no, one or several trigger
\* keywords, in lower and upper case, one message at a time, and answers
\* the questions of the workflows that start.
MatchMsgs == {"faq?", "menu?", "FAQ Info", "jane"}

NextMatch ==
  \/ \E m \in MatchMsgs : NewMessage(1, "w1", m)
  \/ WfSettings(1) \/ WfLookup(1) \/ WfInsert(1)
  \/ WcAdvance(1) \/ WcComplete(1) \/ WcInquiry(1)
  \/ WebStep(1) \/ Retire(1)

SpecMatch == Init /\ [][NextMatch]_vars

\* --------------------------------------------------------- sequence scenario
\* One web visitor starts workflows that do not hand off to the booking
\* engine (steps in positional order, a next that jumps over a step, a first
\* step that shares media) and answers them, one message at a time.
SequenceMsgs == {"FAQ Info", "skip?", "show?", "jane"}

NextSequence ==
  \/ \E m \in SequenceMsgs : NewMessage(1, "w1", m)
  \/ WfSettings(1) \/ WfLookup(1) \/ WfInsert(1) \/ WfMediaNext(1)
  \/ WcAdvance(1) \/ WcComplete(1) \/ WcInquiry(1)
  \/ WebStep(1) \/ Retire(1)

SpecSequence == Init /\ [][NextSequence]_vars

\* ------------------------------------------------------- successive scenario
\* One customer on the phone holds one booking conversation after another
\* within a minute, confirming or cancelling, and then falls silent in the
\* middle of one; from then on the clock runs and the cleanup timer fires.
SuccessiveMsgs == {"book!", "jane", "1", "y", "cancel"}

\* No turn is running and a session of the customer is left open
Silent ==
  /\ \A i \in Turns : turns[i].pc \in {"idle", "done"}
  /\ ActiveRows("p1") # {}

NextSuccessive ==
  \/ \E m \in SuccessiveMsgs : now = 0 /\ Arrive(1, "p1", m)
  \/ PhoneStep(1) \/ WfSettings(1) \/ SessionStep(1) \/ BookingStep(1)
  \/ BCancel(1) \/ Retire(1)
  \/ Silent /\ Tick
  \/ Silent /\ SweepTimer

SpecSuccessive == InitReserve /\ [][NextSuccessive]_vars

\* ------------------------------------------------------- stale list scenario
\* A phone customer is shown the time slots of a date and takes a while to
\* answer; meanwhile a web visitor books on the same bot.  The handler that
\* sent the list is kept (slot 1 of the turns) until the customer's answer,
\* handled in slot 2, is through.
Shown(t) ==
  /\ t.pc = "done" /\ t.sent # <<>>
  /\ t.sent[Len(t.sent)] = "collecting_time"

AwaitingTime ==
  /\ Shown(turns[1]) /\ turns[1].user = "p1"
  /\ StoredSession("p1").current_step = "collecting_time"

NextStale ==
  \/ \E m \in ReserveMsgs : Arrive(1, "p1", m)
  \/ \E m \in ReserveMsgs : Arrive(2, "w1", m)
  \/ AwaitingTime /\ NewMessage(2, "p1", "1")
  \/ \E i \in Turns :
       \/ PhoneStep(i) \/ WebStep(i) \/ WfSettings(i)
       \/ SessionStep(i) \/ BookingStep(i) \/ Retire(i)

SpecStale == InitReserve /\ [][NextStale]_vars

\* ------------------------------------------------------ late message scenario
\* One customer on the phone starts a booking and writes again at any later
\* minute, one message at a time; the clock runs and the cleanup timer fires
\* between the messages.
LateMsgs == {"book!", "jane"}

\* No handler is running
Quiet == \A i \in Turns : turns[i].pc = "idle"

NextLate ==
  \/ \E m \in LateMsgs : NewMessage(1, "p1", m)
  \/ PhoneStep(1) \/ WfSettings(1) \/ SessionStep(1)
  \/ BCfgFor(1) \/ BCfgGender(1) \/ Retire(1)
  \/ Quiet /\ Tick
  \/ Quiet /\ SweepTimer

SpecLate == InitReserve /\ [][NextLate]_vars

\* ------------------------------------------------------- abandoned scenario
\* One customer on the phone starts a booking, the inquiry workflow or both
\* within a minute, answers or not, and then falls silent; from then on the
\* clock runs and the cleanup timer fires every SweepMinutes.
AbandonMsgs == {"book!", "info?", "jane"}

\* No handler is running and a session of either kind is left open
Abandoned ==
  /\ Quiet
  /\ \E u \in Users : ActiveRows(u) # {} \/ ActiveWf(u) # {}

NextAbandon ==
  \/ \E m \in AbandonMsgs : now = 0 /\ NewMessage(1, "p1", m)
  \/ PhoneStep(1) \/ WfSettings(1) \/ WfLookup(1) \/ WfInsert(1)
  \/ WcAdvance(1) \/ WcComplete(1) \/ WcInquiry(1)
  \/ SessionStep(1) \/ BCfgFor(1) \/ BCfgGender(1) \/ Retire(1)
  \/ Abandoned /\ Tick
  \/ Abandoned /\ SweepTimer

SpecAbandon == Init /\ [][NextAbandon]_vars

\* The handlers run to their end, the clock runs and the timer fires
SpecAbandonFair ==
  /\ SpecAbandon
  /\ WF_vars(PhoneStep(1) \/ WfSettings(1) \/ WfLookup(1) \/ WfInsert(1)
               \/ WcAdvance(1) \/ WcComplete(1) \/ WcInquiry(1)
               \/ SessionStep(1) \/ BCfgFor(1) \/ BCfgGender(1) \/ Retire(1))
  /\ WF_vars(Abandoned /\ Tick)
  /\ WF_vars(Abandoned /\ SweepTimer)

\* ------------------------------------------------------------ twin scenario
\* The same messages are sent to one bot by a phone customer and by a web
\* visitor: the phone customer writes, and when the reply is there the web
\* visitor, whose sessions are in the state the phone customer's were in,
\* writes the same message.  The bot may have the booking system and the
\* workflows switched on or off.
TwinMsgs == {"book!", "book info!", "visit?"}

InitTwin ==
  /\ settings \in [booking_enabled : BOOLEAN, workflow_enabled : BOOLEAN,
                    booking_require_booking_for : {TRUE},
                    booking_require_gender : {TRUE}]
  /\ bconv = {}
  /\ wconv = <<>>
  /\ bookings = <<>>
  /\ inquiries = <<>>
  /\ now = 0
  /\ turns = [i \in Turns |-> IdleTurn]

\* The sessions of the web visitor are as those of the phone customer were
\* when the message of turn t arrived
SameSessions(t) ==
  /\ hasActiveConversation("w1") = t.ab0
  /\ (ActiveWf("w1") # {}) = t.aw0
  /\ StoredSession("w1").current_step = t.s0
  /\ StoredSession("w1").conversation_state = t.d0

NextTwin ==
  \/ \E m \in TwinMsgs : turns[2].pc = "idle" /\ NewMessage(1, "p1", m)
  \/ /\ turns[1].pc = "done" /\ SameSessions(turns[1])
     /\ NewMessage(2, "w1", turns[1].msg)
  \/ \E i \in Turns :
       \/ PhoneStep(i) \/ WebStep(i) \/ WfSettings(i)
       \/ WfLookup(i) \/ WfInsert(i) \/ WfHandoffFirst(i)
       \/ WcComplete(i) \/ WcInquiry(i) \/ WcAdvance(i)
       \/ SessionStep(i) \/ Retire(i)

SpecTwin == InitTwin /\ [][NextTwin]_vars

\* ---------------------------------------------------------- outage scenario
\* One customer on the phone starts the inquiry workflow and answers its
\* questions, one message at a time, while the WhatsApp socket goes down and
\* comes back during the turns.
OutageMsgs == {"info?"}

NextOutage ==
  \/ \E m \in OutageMsgs : NewMessage(1, "p1", m)
  \/ PhoneStep(1) \/ WfSettings(1) \/ WfLookup(1) \/ WfInsert(1)
  \/ WcAdvance(1) \/ WcComplete(1) \/ WcInquiry(1)
  \/ SessionStep(1) \/ Retire(1)
  \/ LinkDown(1) \/ LinkUp(1)

SpecOutage == Init /\ [][NextOutage]_vars

\* --------------------------------------------------------- options scenario
\* One web visitor starts the workflow that opens with a choice between two
\* options and replies with numbers, a label and other text, one message at
\* a time.
OptionMsgs == {"pick?", "2", "3", "BLUE", "jane"}

NextOptions ==
  \/ \E m \in OptionMsgs : NewMessage(1, "w1", m)
  \/ WfSettings(1) \/ WfLookup(1) \/ WfInsert(1)
  \/ WcAdvance(1) \/ WcComplete(1)
  \/ WebStep(1) \/ Retire(1)

SpecOptions == Init /\ [][NextOptions]_vars

\* ----------------------------------------------------------- album scenario
\* One web visitor starts the two workflows that open with a share_media
\* step, the one whose first step names its next and the one whose first
\* step does not, and answers, one message at a time.
AlbumMsgs == {"album?", "show?", "jane"}

NextAlbum ==
  \/ \E m \in AlbumMsgs : NewMessage(1, "w1", m)
  \/ WfSettings(1) \/ WfLookup(1) \/ WfInsert(1) \/ WfMediaNext(1)
  \/ WcAdvance(1) \/ WcComplete(1)
  \/ WebStep(1) \/ Retire(1)

SpecAlbum == Init /\ [][NextAlbum]_vars

\* ------------------------------------------------------------ media scenario
\* A share_media step, for every set of optional adapter methods and every
\* list of at most MaxMedia media items.
NextMedia ==
  \/ \E caps \in Capabilities, media \in MediaLists :
       ShareMediaStep(1, caps, media)
  \/ Retire(1)

SpecMedia == Init /\ [][NextMedia]_vars

\* ------------------------------------------------------------------- claims
\* The reservation rows of the slot a turn's session names
RowsOfSlot(t) ==
  {k \in 1..Len(bookings) :
     /\ bookings[k].booking_date = t.data.bookingDate
     /\ bookings[k].booking_time = t.data.bookingTime}

\* C1: no double booking.  Of the turns that confirm the same (date, time)
\* from different conversations at the same time, exactly one creates the
\* reservation row; every other one is answered success = false ("no longer
\* available" or "just booked"), never a fault, and creates nothing.
C1_NoDoubleBooking ==
  \A i \in Turns :
    LET t == turns[i] IN
    t.res # "" =>
      /\ t.res \in {"ok", "no_longer_available", "just_booked"}
      /\ Cardinality(RowsOfSlot(t)) = 1
      /\ (t.res = "ok") = (t.made \in RowsOfSlot(t))
      /\ \A j \in Turns \ {i} :
           (turns[j].res = "ok" /\ RowsOfSlot(turns[j]) = RowsOfSlot(t))
             => t.res # "ok" /\ t.made = 0

\* Two confirmations of one slot raced: one holds the row, the other passed
\* the availability check and lost at the insert.
C1_Witness ==
  \E i, j \in Turns :
    /\ turns[i].user # turns[j].user
    /\ turns[i].res = "ok" /\ turns[j].res = "just_booked"
    /\ RowsOfSlot(turns[i]) = RowsOfSlot(turns[j])
    /\ Len(bookings) = 1

\* The turn was answered success = false by create_booking_safe
Refused(t) == t.res \in {"no_longer_available", "just_booked"}

\* The booking session of u is stored non-completed at the given step
SessionAt(u, step) ==
  \E r \in ActiveRows(u) : r.current_step = step

\* The answers a refused turn must leave alone are stored as the turn read them
AnswersKept(t) ==
  \A r \in ActiveRows(t.user) :
    /\ r.conversation_state.customerName = t.rdata.customerName
    /\ r.conversation_state.bookingFor = t.rdata.bookingFor
    /\ r.conversation_state.gender = t.rdata.gender
    /\ r.conversation_state.serviceId = t.rdata.serviceId
    /\ r.conversation_state.bookingDate = t.rdata.bookingDate

\* C5: a confirming turn that created the reservation ends with exactly that
\* one pending row, with the session completed in the same turn and with the
\* confirmation sent; no turn ends with a reservation created and the session
\* still non-completed.
C5_ReservedThenCompleted ==
  \A i \in Turns :
    LET t == turns[i] IN
    (t.pc = "done" /\ t.made # 0) =>
      /\ bookings[t.made].status = "pending"
      /\ RowsOfSlot(t) = {t.made}
      /\ ActiveRows(t.user) = {}
      /\ \E k \in 1..Len(t.sent) : t.sent[k] = "booked"

\* C6 as stated: a refused confirmation creates no reservation, leaves the
\* session non-completed and awaiting a new time selection, shows the
\* availability again, and keeps name, booking-for, gender, service and date.
C6_RefusedAwaitsTime ==
  \A i \in Turns :
    LET t == turns[i] IN
    (t.pc = "done" /\ Refused(t)) =>
      /\ t.made = 0
      /\ single(ActiveRows(t.user))
      /\ SessionAt(t.user, "collecting_time")
      /\ t.avail # <<>>
      /\ AnswersKept(t)

\* C6, amended: as above, but the session awaits a new time selection only
\* when a slot of the date is still free; when none is left the customer is
\* told so and the session awaits a new date selection.
C6_RefusedRewinds ==
  \A i \in Turns :
    LET t == turns[i] IN
    (t.pc = "done" /\ Refused(t)) =>
      /\ t.made = 0
      /\ single(ActiveRows(t.user))
      /\ t.sent[1] = "slot_taken"
      /\ IF t.avail # <<>>
         THEN SessionAt(t.user, "collecting_time")
         ELSE /\ SessionAt(t.user, "collecting_date")
              /\ t.sent[2] = "no_slots"
      /\ AnswersKept(t)

\* A refused confirmation ended on a date with no slot left
C6_Witness ==
  \E i \in Turns :
    /\ turns[i].pc = "done" /\ Refused(turns[i])
    /\ turns[i].avail = <<>>
    /\ SessionAt(turns[i].user, "collecting_date")

\* C2: at most one non-completed session, booking and workflow together, per
\* (bot, user), whatever the interleaving of the user's turns.
C2_OneSessionPerUser ==
  \A u \in Users :
    Cardinality(ActiveRows(u)) + Cardinality(ActiveWf(u)) <= 1

\* The turn has read the session record and has not yet returned
InTurnWindow(t) == t.pc \notin {"idle", "done"} /\ t.rstep # ""

\* C3: the turns of one (bot, user) are serialized: no two of them are at the
\* same time between reading the session record and writing it back.
C3_TurnsSerialized ==
  \A i, j \in Turns :
    (i # j /\ turns[i].user = turns[j].user)
      => ~(InTurnWindow(turns[i]) /\ InTurnWindow(turns[j]))

\* Some reservation of the slot is not cancelled
Reserved(dt, tm) ==
  \E k \in 1..Len(bookings) :
    /\ bookings[k].booking_date = dt /\ bookings[k].booking_time = tm
    /\ bookings[k].status # "cancelled"

\* The slot is among those get_available_time_slots offers for the date
Offered(dt, tm) ==
  \E k \in 1..Len(availableSlots(dt)) : availableSlots(dt)[k] = tm

\* create_booking_safe would insert a reservation of the slot
Accepted(dt, tm) ==
  /\ is_time_slot_available(dt, tm)
  /\ idx_bookings_unique_slot(Append(bookings,
       [customer_phone |-> "p1", booking_date |-> dt, booking_time |-> tm,
        status |-> "pending"]))

\* C4: a slot is offered, and accepted by the reservation operation, exactly
\* when no non-cancelled reservation exists for it; a reservation set to
\* completed or no_show keeps its slot unavailable.
C4_FreeIffNoneNotCancelled ==
  \A dt \in Dates : \A tm \in TemplateSlots(dt) :
    /\ Offered(dt, tm) = ~Reserved(dt, tm)
    /\ Accepted(dt, tm) = ~Reserved(dt, tm)

\* The engine the dispatcher handed the message to appears in the route
Routed(t, engine) == \E k \in 1..Len(t.route) : t.route[k] = engine

\* The dispatcher itself gave the message to the booking engine
BookingDirect(t) ==
  Routed(t, "booking_active") \/ Routed(t, "booking_start")
    \/ Routed(t, "booking_ai")

\* C7: a fresh message (no active session of either kind) that matches both a
\* workflow trigger and a booking keyword starts the workflow and no booking,
\* on the phone dispatcher and on the web dispatcher.
C7_WorkflowBeforeKeyword ==
  \A i \in Turns :
    LET t == turns[i] IN
    (/\ t.pc = "done" /\ ~t.ab0 /\ ~t.aw0
     /\ isBookingTrigger(t.msg, BookingKeywords) /\ MatchWorkflow(t.msg) # 0)
      => t.route[1] = "wf_start" /\ ~BookingDirect(t)

\* C8: while a booking session is active every message of the user goes to
\* the booking engine and never reaches the workflow engine, neither its
\* continuation nor its trigger matching, on both dispatchers and whatever
\* the booking-enabled flag.
C8_ActiveBookingOwnsMessage ==
  \A i \in Turns :
    LET t == turns[i] IN
    (t.pc = "done" /\ t.ab0) => t.route = <<"booking_active">>

\* C9: while a workflow session is active a message is consumed by the
\* workflow continuation and the dispatcher never starts a booking with it,
\* even when it contains a booking keyword.
C9_ActiveWorkflowOwnsMessage ==
  \A i \in Turns :
    LET t == turns[i] IN
    (t.pc = "done" /\ t.aw0 /\ ~t.ab0) =>
      t.route[1] = "wf_continue" /\ ~BookingDirect(t)

\* The turn is at, or past, a start_booking hand-off
HandingOff(t) ==
  t.pc \in {"wf_handoff", "wc_handoff", "wc_handoff2"} \/ Routed(t, "handoff")

\* C10: at a start_booking step (first, current or next) the workflow session
\* is completed before the booking engine is invoked, no inquiry is written,
\* the booking engine starts a fresh session with the message, and at no
\* point of the hand-off are both kinds of session non-completed for the user.
C10_HandOff ==
  \A i \in Turns :
    LET t == turns[i] IN
    /\ Routed(t, "handoff") =>
         /\ \A c \in ActiveWf(t.user) :
              wconv[c].workflow_id # Workflows[t.wf].id
         /\ t.inq = 0
         /\ t.pc = "done" => t.rstep = "idle" /\ ~BookingDirect(t)
    /\ HandingOff(t) =>
         ~(ActiveWf(t.user) # {} /\ ActiveRows(t.user) # {})

\* The time a session was last touched, as its expires_at records it
LastTouched(r) == r.expires_at - ExpiryMinutes

\* The step of turn i in which extendExpiry is run
Touches(i) == turns[i].pc = "b_extend" /\ turns'[i].pc # "b_extend"

\* The rows a step of the clock turns from non-completed into completed
SweptRows == {r \in bconv : ~r.is_completed /\ r \notin bconv'}

\* C11: sliding expiry.  Every booking turn resets the expires_at of the
\* user's session to the time of the turn plus 30 minutes; the sweep never
\* completes a session before 30 minutes after it was last touched; and a
\* session that is not touched again is completed by the sweep no later than
\* 61 minutes after it was last touched.
C11_SlidingExpiry ==
  /\ [][\A i \in Turns : Touches(i) =>
          \A r \in bconv' :
            (r.customer_phone = turns[i].user /\ ~r.is_completed)
              => r.expires_at = now + ExpiryMinutes]_vars
  /\ [][now' # now => \A r \in SweptRows : now' > LastTouched(r) + 30]_vars
  /\ [](\A r \in bconv : ~r.is_completed => now <= LastTouched(r) + 61)

\* C12: the sweep is a passive timeout.  A firing of the cleanup timer marks
\* every non-completed session whose expires_at is in the past as completed,
\* leaves current_step and conversation_state of every session and the flag
\* of every non-expired session as they were, and sends nothing.
C12_SweepIsPassive ==
  [][(now' # now /\ now' % SweepMinutes = 0) =>
       /\ bconv' = {IF ~r.is_completed /\ r.expires_at < now'
                    THEN [r EXCEPT !.is_completed = TRUE] ELSE r : r \in bconv}
       /\ turns' = turns]_vars

\* The session of turn t's user as the store holds it is the state object t
\* works on
Restored(t) ==
  \E r \in ActiveRows(t.user) :
    t.step = r.current_step /\ t.data = r.conversation_state

\* C13: state restoration.  Whatever happened to the process between two
\* turns, a booking turn starts from exactly the step and the collected
\* fields of the durable session record: the state object a turn holds after
\* getOrCreateState is the stored one, and nothing of an earlier turn is left
\* in the handler.
C13_StateRestoration ==
  \A i \in Turns :
    /\ turns[i].pc = "b_extend" => Restored(turns[i])
    /\ turns[i].pc \in {"d_enabled", "d_active", "b_get"} =>
         /\ turns[i].step = "" /\ turns[i].data = NoData
         /\ turns[i].avail = <<>> /\ turns[i].res = ""

\* A turn resumed a conversation that awaits the date with the name, the
\* person, the gender and the service given in earlier turns
C13_Witness ==
  \E i \in Turns :
    /\ turns[i].pc = "b_extend"
    /\ turns[i].step = "collecting_date"
    /\ turns[i].data.customerName = "jane"
    /\ turns[i].data.gender # ""
    /\ turns[i].data.serviceName = "haircut"
    /\ \A j \in Turns \ {i} : turns[j] = IdleTurn

\* The message of turn t is not an answer the step the session was at when
\* the message arrived accepts (the validators of the step handlers)
InvalidInput(t) ==
  /\ toLowerCase(t.msg) # "cancel"
  /\ CASE t.s0 = "collecting_name" -> ~validateName(t.msg).valid
       [] t.s0 = "collecting_booking_for" -> ~validateBookingFor(t.msg).valid
       [] t.s0 = "collecting_gender" -> ~validateGender(t.msg).valid
       [] t.s0 = "collecting_service" -> selectService(t.msg) = 0
       [] t.s0 = "collecting_date" -> selectDate(t.msg) = 0
       [] t.s0 = "collecting_time" ->
            selectTime(t.msg, availableSlots(t.d0.bookingDate)) = 0
       [] t.s0 = "confirming" -> ~validateConfirmation(t.msg).valid
       [] OTHER -> FALSE

\* C14: validation idempotence.  A turn whose message is invalid for the
\* collecting state (or CONFIRMING) the session is in ends with the re-prompt
\* and with the persisted current_step and conversation_state exactly as they
\* were when the message arrived (so sending it again gives the same state).
C14_InvalidInputKeepsState ==
  \A i \in Turns :
    LET t == turns[i] IN
    (t.pc = "done" /\ InvalidInput(t)) =>
      /\ t.sent = << "invalid" >>
      /\ StoredSession(t.user) =
           [current_step |-> t.s0, conversation_state |-> t.d0]

\* The message of turn t asks to cancel the session it arrived at: 'cancel'
\* in any case outside CONFIRMING, a negative reply in CONFIRMING
CancelInput(t) ==
  IF t.s0 = "confirming"
  THEN validateConfirmation(t.msg).valid /\ ~validateConfirmation(t.msg).value
  ELSE toLowerCase(t.msg) = "cancel"

\* C15: global cancel.  A booking turn whose message asks to cancel ends, in
\* that turn, with the cancellation message as its only output, with no
\* non-completed booking session of the user left, with no reservation made
\* by the turn and with no step handler having touched the state.
C15_GlobalCancel ==
  \A i \in Turns :
    LET t == turns[i] IN
    (t.pc = "done" /\ BookingDirect(t) /\ CancelInput(t)) =>
      /\ t.sent = << "cancelled" >>
      /\ ActiveRows(t.user) = {}
      /\ t.made = 0
      /\ t.data = t.rdata

\* The booking steps a prompt is sent for
PromptedSteps ==
  {"collecting_name", "collecting_booking_for", "collecting_gender",
   "collecting_service", "collecting_date", "collecting_time", "confirming"}

\* What the tables B (booking_conversations) and W (workflow_conversations)
\* hold is what the outbound message tag of turn t tells the user: the step
\* prompted for, the return to the dates or to the time slots, the end of
\* the conversation
Persisted(tag, t, B, W) ==
  LET rows == {r \in B : r.customer_phone = t.user /\ ~r.is_completed}
      at(S) == \E r \in rows : r.current_step \in S
  IN CASE tag \in PromptedSteps -> at({tag})
       [] tag = "no_slots" -> at({"showing_dates", "collecting_date"})
       [] tag = "slot_taken" ->
            at({"showing_time_slots", "collecting_time",
                "showing_dates", "collecting_date"})
       [] tag \in {"cancelled", "booked"} -> rows = {}
       [] tag = "wf_done" -> t.cid # 0 => W[t.cid].is_completed
       [] tag = "wf_prompt" ->
            IF t.cid # 0 THEN W[t.cid].current_step_id # t.cur
            ELSE \E c \in 1..Len(W) : W[c].user_key = t.user
                                      /\ ~W[c].is_completed
       [] OTHER -> TRUE

\* C16: persist before send.  Whenever a booking or workflow turn emits a
\* message that announces a new step or an outcome, the session record
\* already holds that step or outcome (the write came before the message or
\* together with it).
C16_PersistBeforeSend ==
  [][\A i \in Turns :
       Len(turns'[i].sent) > Len(turns[i].sent) =>
         Persisted(turns'[i].sent[Len(turns'[i].sent)], turns'[i],
                   bconv', wconv')]_vars

\* C17: a collaborator failure leaves the session unchanged.  A booking turn
\* of an existing session in which a storage call or a transport send failed
\* ends with the persisted current_step and conversation_state equal to what
\* they were when the message arrived.
C17_FaultKeepsSession ==
  \A i \in Turns :
    LET t == turns[i] IN
    (t.pc = "done" /\ t.faulted /\ t.ab0 /\ BookingDirect(t)) =>
      StoredSession(t.user) =
        [current_step |-> t.s0, conversation_state |-> t.d0]

\* The workflow engine took the message of turn t
WorkflowTook(t) == Routed(t, "wf_start") \/ Routed(t, "wf_continue")

\* C18: no fault escapes an engine.  Whatever collaborator fails during a
\* turn, a failing transport send included, handleBookingMessage and
\* tryHandle return normally to the dispatcher, and the turn has sent the
\* channel a response.
C18_NoFaultEscapes ==
  \A i \in Turns :
    LET t == turns[i] IN
    (t.pc = "done" /\ (BookingDirect(t) \/ WorkflowTook(t))) =>
      /\ t.escaped = ""
      /\ t.sent # << >>

\* C19: audit trail.  Every sendText call a turn makes on its adapter has
\* written its outbound record, also when the transport did not deliver.
C19_AuditTrail ==
  \A i \in Turns : Len(turns[i].audit) = turns[i].calls

\* The fields a session waiting for the confirmation holds
Collected(data) ==
  /\ data.customerName # "" /\ data.serviceId # 0 /\ data.serviceName # ""
  /\ data.bookingDate # 0 /\ data.bookingTime # 0

C21_DisabledStepsSkipped ==
  \A r \in bconv :
    /\ r.current_step = "collecting_booking_for"
         => settings.booking_require_booking_for
    /\ r.current_step = "collecting_gender"
         => settings.booking_require_gender

\* The stored step of the customer's session
StoredStep == StoredSession("p1").current_step

\* C22: the flags are consulted once, at the start of a conversation.  A
\* conversation started while both flags were on goes from COLLECTING_NAME
\* to COLLECTING_BOOKING_FOR and from there to COLLECTING_GENDER, whatever
\* the owner does to the flags after its start.
C22_FlagsFixedAtStart ==
  [][/\ (StoredStep = "collecting_name" /\ StoredStep' # StoredStep)
          => StoredStep' = "collecting_booking_for"
     /\ (StoredStep = "collecting_booking_for" /\ StoredStep' # StoredStep)
          => StoredStep' = "collecting_gender"]_vars

\* The steps in which the engine shows a list before it collects the answer
ShowingSteps == {"showing_services", "showing_dates", "showing_time_slots"}

\* C23: the SHOWING_* steps are never resting states.  When a turn has ended,
\* also one that a collaborator fault aborted, the stored step of the user's
\* non-completed session is not a SHOWING_* step, and no turn has read a
\* SHOWING_* step as the step to start from.
C23_ShowingNeverRests ==
  \A i \in Turns :
    /\ turns[i].pc = "done"
         => StoredSession(turns[i].user).current_step \notin ShowingSteps
    /\ turns[i].rstep \notin ShowingSteps

\* A finished turn that answered the question for the time
TimeTurn(t) ==
  t.pc = "done" /\ t.s0 = "collecting_time" /\ toLowerCase(t.msg) # "cancel"

\* C24: time selection.  A turn at COLLECTING_TIME accepts its input exactly
\* when the input is an integer from 1 to the number of slots in the list
\* the turn itself fetched for the chosen date; it then stores that slot of
\* that list as bookingTime and CONFIRMING as the step; any other input, a
\* time written out included, gets the re-prompt and changes nothing.
C24_TimeByIndex ==
  \A i \in Turns :
    LET t == turns[i]
        st == StoredSession(t.user)
    IN TimeTurn(t) =>
         IF IsNumber(t.msg) /\ parseInt(t.msg) \in 1..Len(t.avail)
         THEN /\ st.current_step = "confirming"
              /\ st.conversation_state =
                   [t.d0 EXCEPT !.bookingTime = t.avail[parseInt(t.msg)]]
              /\ t.sent = <<"confirming">>
         ELSE /\ st.current_step = "collecting_time"
              /\ st.conversation_state = t.d0
              /\ t.sent = <<"invalid">>

\* The customer was shown one slot, the earlier reservation was cancelled,
\* and the answer 2 took the second slot of the list fetched by the turn
C24_Witness ==
  \E i \in Turns :
    /\ TimeTurn(turns[i]) /\ turns[i].msg = "2"
    /\ turns[i].avail = <<1, 2>>
    /\ StoredSession(turns[i].user).current_step = "confirming"
    /\ StoredSession(turns[i].user).conversation_state.bookingTime = 2
    /\ bookings # <<>> /\ bookings[1].status = "cancelled"

\* The published, active workflows one of whose trigger keywords is a
\* substring of the lower-cased message
Triggered(m) ==
  {w \in 1..Len(Workflows) :
     /\ Workflows[w].status = "published" /\ Workflows[w].is_active
     /\ \E k \in Workflows[w].keywords :
          includes(toLowerCase(m), toLowerCase(k))}

\* The first of them in the stored order
FirstTriggered(m) ==
  CHOOSE w \in Triggered(m) : \A v \in Triggered(m) : w <= v

\* A finished turn whose message reached the trigger matching
MatchTurn(t) ==
  /\ t.pc = "done"
  /\ \E k \in 1..Len(t.route) : t.route[k] \in {"wf_start", "wf_nomatch"}

\* The turn started a conversation of workflow w
StartedWf(t, w) ==
  /\ \E k \in 1..Len(t.route) : t.route[k] = "wf_start"
  /\ t.wf = w
  /\ \E c \in 1..Len(wconv) :
       wconv[c].user_key = t.user /\ wconv[c].workflow_id = Workflows[w].id

\* C25 as stated: a message with no active workflow session starts a
\* workflow conversation exactly when some published, active workflow has a
\* trigger keyword that the message contains, whatever the case of the
\* letters; the first such workflow is the one started.
C25_StartedIffTriggered ==
  \A i \in Turns :
    LET t == turns[i] IN
    MatchTurn(t) =>
      /\ (\E w \in 1..Len(Workflows) : StartedWf(t, w))
           <=> Triggered(t.msg) # {}
      /\ \A w \in 1..Len(Workflows) :
           StartedWf(t, w) => w = FirstTriggered(t.msg)

\* C25, made precise: the first published, active workflow whose keyword the
\* message contains is started when it has at least one step; when it has
\* no step nothing is started, also if a later workflow matches; drafts and
\* switched-off workflows are never started.
C25_FirstMatchWithSteps ==
  \A i \in Turns :
    LET t == turns[i] IN
    MatchTurn(t) =>
      /\ (\E w \in 1..Len(Workflows) : StartedWf(t, w))
           <=> /\ Triggered(t.msg) # {}
               /\ Len(Workflows[FirstTriggered(t.msg)].steps) > 0
      /\ \A w \in 1..Len(Workflows) :
           StartedWf(t, w) => w = FirstTriggered(t.msg)

\* A text in upper case with the keywords of two published workflows started
\* the earlier of the two
C25_Witness ==
  \E i \in Turns :
    /\ MatchTurn(turns[i]) /\ turns[i].msg = "FAQ Info"
    /\ Cardinality(Triggered(turns[i].msg)) = 2
    /\ StartedWf(turns[i], 1)

\* The step that follows step sid of workflow w: its explicit next, else the
\* step after it in the list; "" after the last step
Successor(w, sid) ==
  LET steps == Workflows[w].steps
      k == CHOOSE k \in 1..Len(steps) : steps[k].id = sid
  IN IF steps[k].next # "" THEN steps[k].next
     ELSE IF k < Len(steps) THEN steps[k + 1].id ELSE ""

\* Position of the current step of the conversation row r in its workflow
Position(r) ==
  findIndex(Workflows[WfIndex(r.workflow_id)].steps, r.current_step_id)

\* The conversations of workflow w that reached the end of the step list
Ended(w) ==
  {c \in 1..Len(wconv) :
     wconv[c].workflow_id = Workflows[w].id /\ wconv[c].is_completed}

\* The inquiry records written for workflow w
InquiriesOf(w) ==
  {k \in 1..Len(inquiries) : inquiries[k].workflow_id = Workflows[w].id}

\* A conversation starts at the first step and its current step only ever
\* changes to the successor of the step it was at
InStepOrder ==
  \A c \in 1..Len(wconv') :
    LET w == WfIndex(wconv'[c].workflow_id) IN
    IF c > Len(wconv)
    THEN wconv'[c].current_step_id = Workflows[w].steps[1].id
    ELSE wconv'[c].current_step_id # wconv[c].current_step_id
           => /\ ~wconv[c].is_completed
              /\ wconv'[c].current_step_id
                   = Successor(w, wconv[c].current_step_id)

\* Every message a conversation consumed completed it or moved it to a
\* later step, so that a conversation ends after at most as many messages
\* as its workflow has steps
Progressed ==
  \A i \in Turns :
    LET t == turns'[i] IN
    (t.pc = "done" /\ turns[i].pc # "done" /\ t.cid # 0) =>
      \/ wconv'[t.cid].is_completed
      \/ Position(wconv'[t.cid]) >
           findIndex(Workflows[t.wf].steps, t.cur)

\* Between two turns, each workflow has one inquiry record for each of its
\* conversations that reached the end when it has the save_to_database
\* action, and none when it has not
TerminalOnce ==
  (\A i \in Turns : turns'[i].pc \in {"idle", "done"}) =>
    \A w \in 1..Len(Workflows) :
      Cardinality(InquiriesOf(w)') =
        IF Workflows[w].save THEN Cardinality(Ended(w)') ELSE 0

C27_EveryItemDelivered ==
  \A i \in Turns :
    LET t == turns[i] IN
    \A k \in 1..Len(t.media) :
      (t.media[k].hasFile
       /\ t.media[k].mediaType \in {"image", "video", "document"}) =>
        \E j \in 1..Len(t.out) :
          /\ t.out[j].item = k
          /\ t.out[j].via =
               IF t.media[k].mediaType = "document"
                  /\ "sendDocument" \in t.caps THEN "sendDocument"
               ELSE IF t.media[k].mediaType # "document"
                       /\ "sendRich" \in t.caps THEN "sendRich"
               ELSE "sendText"

\* C28: one booking session per user.  Whatever the interleaving of the
\* booking turns of a user, the user has at most one non-completed
\* booking_conversations row, and a start that loses against a concurrent
\* start adds no row.
C28_OneBookingSession ==
  /\ [](\A u \in Users : Cardinality(ActiveRows(u)) <= 1)
  /\ [][\A u \in Users :
          ActiveRows(u) # {} =>
            Cardinality({r \in bconv' : r.customer_phone = u})
              <= Cardinality({r \in bconv : r.customer_phone = u})]_vars

\* Two turns of the customer both found no session and both tried to insert
\* one: the first holds the row, the second was rejected and apologised
C28_Witness ==
  \E i, j \in Turns :
    /\ i # j /\ turns[i].user = turns[j].user
    /\ turns[i].rstep = "idle" /\ turns[i].pc \notin {"idle", "b_get", "b_create"}
    /\ turns[j].pc = "done" /\ turns[j].rstep = ""
    /\ \E k \in 1..Len(turns[j].route) : turns[j].route[k] = "booking_start"
    /\ \E k \in 1..Len(turns[j].sent) : turns[j].sent[k] = "apology"
    /\ Cardinality(ActiveRows(turns[j].user)) = 1

\* Every tryHandle call made while the user has an active workflow
\* conversation continues that conversation
ActiveConversationFound ==
  \A i \in Turns :
    (/\ turns[i].pc = "wf_convo" /\ turns'[i].pc # "wf_convo"
     /\ ActiveWf(turns[i].user) # {})
      => turns'[i].cid \in ActiveWf(turns[i].user)

\* C29: one workflow session per user.  Whatever the interleaving of the
\* tryHandle calls of a user whose messages match a trigger, the user has at
\* most one non-completed workflow_conversations row, and a message that
\* arrives while a conversation is active continues it.
C29_OneWorkflowSession ==
  /\ [](\A u \in Users : Cardinality(ActiveWf(u)) <= 1)
  /\ [][ActiveConversationFound]_vars

\* The reservations that are pending or confirmed for the slot
HoldersOfSlot(dt, tm) ==
  {k \in 1..Len(bookings) :
     /\ bookings[k].booking_date = dt /\ bookings[k].booking_time = tm
     /\ bookings[k].status \in {"pending", "confirmed"}}

\* C30: after any sequence of reservation attempts and status changes by the
\* operator, a change of a cancelled, completed or no_show reservation back
\* to pending or confirmed included, every (date, time) has at most one
\* reservation that is pending or confirmed.
C30_OneHolderPerSlot ==
  \A k \in 1..Len(bookings) :
    Cardinality(HoldersOfSlot(bookings[k].booking_date,
                              bookings[k].booking_time)) <= 1

\* The slot has two reservations: the operator confirmed one of them, the
\* other one is cancelled, completed or no_show and cannot be brought back
C30_Witness ==
  \E j, k \in 1..Len(bookings) :
    /\ j # k
    /\ bookings[j].booking_date = bookings[k].booking_date
    /\ bookings[j].booking_time = bookings[k].booking_time
    /\ bookings[j].status = "confirmed"
    /\ bookings[k].status \in {"cancelled", "completed", "no_show"}
    /\ \A s \in {"pending", "confirmed"} : ~ENABLED SetBookingStatus(k, s)

\* An earlier booking session of the user is retained, completed, in the store
Retained(u) == \E c \in bconv : c.customer_phone = u /\ c.is_completed

\* C31: successive conversations.  For a user who has a completed booking
\* session retained in the store, the confirmation and the cancellation of a
\* later session leave no non-completed session of the user, and a firing of
\* the cleanup timer leaves none of the user's sessions expired and
\* non-completed.
C31_LaterSessionCompletes ==
  [][/\ \A i \in Turns :
          (/\ turns[i].pc \in {"b_complete", "b_cancel"}
           /\ turns'[i].pc # turns[i].pc
           /\ Retained(turns[i].user))
            => ~\E r \in bconv' :
                  r.customer_phone = turns[i].user /\ ~r.is_completed
     /\ (now' # now /\ now' % SweepMinutes = 0) =>
          \A r \in bconv' :
            (Retained(r.customer_phone) /\ ~r.is_completed)
              => r.expires_at >= now']_vars

\* C32: the time stored for a valid selection is the time shown to the user
\* at that index in the last slot list sent to them, also when another
\* conversation reserved a slot of the date after the list was sent.
C32_TimeAsDisplayed ==
  LET shown == turns[1]
      t == turns[2]
  IN (/\ Shown(shown) /\ t.user = shown.user
      /\ TimeTurn(t) /\ t.sent = <<"confirming">>)
       => /\ parseInt(t.msg) \in 1..Len(shown.avail)
          /\ StoredSession(t.user).conversation_state.bookingTime
               = shown.avail[parseInt(t.msg)]

\* The user has a non-completed booking session whose expires_at has passed
Overdue(u) == \E r \in ActiveRows(u) : r.expires_at < now

\* C33: a message that arrives after the expires_at of the user's booking
\* session is no continuation of it, swept or not: the dispatcher does not
\* find the session active, and no step of the turn gives the session a new
\* expires_at.
C33_ExpiredIsNotContinued ==
  [][\A i \in Turns :
       Overdue(turns[i].user) =>
         /\ Routed(turns'[i], "booking_active")
              => Routed(turns[i], "booking_active")
         /\ ~\E r \in bconv' :
               /\ r.customer_phone = turns[i].user /\ ~r.is_completed
               /\ r.expires_at >= now']_vars

Handler(t) ==
  IF Routed(t, "booking_active") THEN "booking continuation"
  ELSE IF Routed(t, "wf_start") \/ Routed(t, "wf_continue") THEN "workflow"
  ELSE IF Routed(t, "booking_start") \/ Routed(t, "booking_ai")
  THEN "booking start"
  ELSE "free-form reply"

\* C35: the phone dispatcher and the web dispatcher are equivalent.  Two
\* finished turns, one on each channel, with the same message, the same bot
\* configuration and the same session state at arrival went to the same
\* handler.
C35_DispatchersEquivalent ==
  \A i, j \in Turns :
    LET p == turns[i]
        w == turns[j]
    IN (/\ p.pc = "done" /\ w.pc = "done"
        /\ p.user \in PhoneUsers /\ w.user \in WebUsers
        /\ p.msg = w.msg
        /\ p.ab0 = w.ab0 /\ p.aw0 = w.aw0 /\ p.s0 = w.s0 /\ p.d0 = w.d0)
         => Handler(p) = Handler(w)

\* C36: while the booking-enabled flag of the bot is off no booking session
\* is created and none is advanced, a workflow start_booking step included:
\* every session row after a step was there before the step, with the same
\* step and the same collected data.
C36_NoBookingWhenDisabled ==
  [][~settings.booking_enabled =>
       \A r \in bconv' : \E q \in bconv :
         /\ q.customer_phone = r.customer_phone
         /\ q.current_step = r.current_step
         /\ q.conversation_state = r.conversation_state]_vars

\* The positions tryHandle and continueConversation reach only after a write
\* to workflow_conversations
WrittenPcs == {"wf_handoff", "wf_media_next", "wc_inquiry", "wc_handoff2"}

\* The step in which tryHandle returns false to the dispatcher of turn i,
\* which then goes on to the booking system and the free-form reply
Declines(i) ==
  /\ turns[i].pc \in WorkflowPcs
  /\ turns'[i].pc \in {"d_ai", "w_enabled"}

\* C37: a message is consumed by one engine.  When the workflow engine hands
\* a message back to the dispatcher it has, for that message, written no
\* workflow conversation and no inquiry and sent no output, whatever
\* collaborator failed during the turn.
C37_OneConsumer ==
  [][\A i \in Turns :
       Declines(i) =>
         /\ turns[i].pc \notin WrittenPcs
         /\ wconv' = wconv /\ inquiries' = inquiries
         /\ turns'[i].sent = <<>>]_vars

\* C38: at a show_options step the conversation moves on only when the
\* message selects an option, by its number within range or by its label in
\* any case; any other reply stores nothing and leaves the conversation at
\* the step.
C38_OptionsGate ==
  [][\A i \in Turns :
       LET t == turns[i] IN
       (/\ t.pc \in {"wc_advance", "wc_complete"} /\ turns'[i].pc # t.pc
        /\ CurrentStep(t.wf, t.cur).type = "show_options"
        /\ parseOption(t.msg, Options(t.cur)) = 0)
         => wconv'[t.cid] = wconv[t.cid]]_vars

\* Conversation c stands at the first step of its workflow, a share_media
\* step: tryHandle sent the media of the step when it inserted the row
SharedAtStart(c) ==
  LET steps == Workflows[WfIndex(wconv[c].workflow_id)].steps IN
  /\ steps[1].type = "share_media"
  /\ wconv[c].current_step_id = steps[1].id

\* C39: in a workflow without a cycle of next links every step is executed
\* at most once per conversation; in particular the media of a first step
\* of type share_media, sent when the conversation started, are not sent
\* again by the turn that continues the conversation.
C39_StepsRunOnce ==
  [][\A i \in Turns :
       (/\ turns[i].pc = "wf_convo" /\ turns'[i].cid # 0
        /\ SharedAtStart(turns'[i].cid))
         => ~\E k \in 1..Len(turns'[i].sent) :
               turns'[i].sent[k] = "wf_media"]_vars

====
